---- MODULE Spec2Model ----
(***************************************************************************)
(* Sketch Studio generation pipeline.                                      *)
(*                                                                         *)
(*   - text layer and Response Interpreter (parseResponse and helpers)     *)
(*   - Completion Gateway retry loop (CompleteWithRetry)                   *)
(*   - Compile Gate (CompileWithOptions)                                   *)
(*   - Turn Orchestrator (createSketch, completeWithContinuation) driven   *)
(*     by Studio.generate (single-sketch mode)                             *)
(*   - Section Coordinator (Studio.Generate, sectioned mode)               *)
(*                                                                         *)
(* A text is a sequence of tokens; concatenation of texts is \o.           *)
(***************************************************************************)
EXTENDS Integers, Sequences, FiniteSets, TLC

\* ------------------------------------------------------------------ bounds

\* Longest input text drawn for the Response Interpreter on its own.
MaxParseLen == 3
\* Most truncated gateway responses in one createSketch invocation.
MaxTruncated == 4
\* Sections of the plans the model returns.
MaxSections == 3

\* ------------------------------------------------------- program constants

maxRetries == 2
maxContinuations == 3
\* retry count createSketch hands to CompleteWithRetry
sketchGatewayRetries == 2
\* retry count Plan and ExpandSection hand to CompleteWithRetry
planGatewayRetries == 3

\* ------------------------------------------------------------------- text

Tok(k, v) == [k |-> k, v |-> v]
NL == Tok("ws", "nl")
SP == Tok("ws", "sp")
Hash == Tok("hash", "hash")
Fence == Tok("fence", "fence")
Lang == Tok("lang", "sketchlang")
Comma == Tok("comma", ",")
Colon == Tok("colon", ":")
Txt(v) == Tok("txt", v)
\* <tag> and </tag>, in lower case and in upper case
Open(tag) == Tok("open", tag)
Close(tag) == Tok("close", tag)
OpenUp(tag) == Tok("OPEN", tag)
CloseUp(tag) == Tok("CLOSE", tag)

IsSpace(t) == t.k = "ws"

SetMin(S) == CHOOSE x \in S : \A y \in S : x <= y
SetMax(S) == CHOOSE x \in S : \A y \in S : x >= y

\* the element of a set of one element
The(S) == CHOOSE x \in S : TRUE

NoMatch == [found |-> FALSE, group |-> <<>>]
Match(g) == [found |-> TRUE, group |-> g]

\* no trimming at all
NoTrim(s) == s

\* strings.TrimSpace
TrimSpace(s) ==
    The({LET keep == {i \in 1..Len(t) : ~IsSpace(t[i])}
         IN  IF keep = {} THEN <<>> ELSE SubSeq(t, SetMin(keep), SetMax(keep))
         : t \in {s}})

\* strings.TrimPrefix of one hash
TrimHash(s) == IF Len(s) > 0 /\ s[1] = Hash THEN Tail(s) ELSE s

\* FindStringSubmatch of the tag pattern (dot matches line breaks, lazy group):
\* leftmost opening marker that some closing marker follows, then the nearest
\* closing marker.
TagMatch(content, opens, closes) ==
    The({LET n == Len(c)
             starts == {i \in 1..n : c[i] \in opens /\ \E j \in (i+1)..n : c[j] \in closes}
         IN  IF starts = {} THEN NoMatch
             ELSE LET i == SetMin(starts)
                      j == SetMin({j \in (i+1)..n : c[j] \in closes})
                  IN  Match(SubSeq(c, i+1, j-1))
         : c \in {content}})

\* FindStringSubmatch of the fenced-block pattern: fence, optional language
\* name, white space ending in a line break (greedy), lazy group, line break,
\* fence.
FenceMatch(content) ==
    The({LET n == Len(c)
             BodyStart(i) == IF i+1 <= n /\ c[i+1] = Lang THEN i+2 ELSE i+1
             OpenNL(i) == {p \in BodyStart(i)..n : c[p] = NL
                              /\ \A q \in BodyStart(i)..(p-1) : IsSpace(c[q])}
             CloseNL(p) == {q \in (p+1)..(n-1) : c[q] = NL /\ c[q+1] = Fence}
             Cands(i) == {p \in OpenNL(i) : CloseNL(p) # {}}
             starts == {i \in 1..n : c[i] = Fence /\ Cands(i) # {}}
         IN  IF starts = {} THEN NoMatch
             ELSE LET i == SetMin(starts)
                      p == SetMax(Cands(i))
                      q == SetMin(CloseNL(p))
                  IN  Match(SubSeq(c, p+1, q-1))
         : c \in {content}})

extractCode(content) ==
    LET m == TagMatch(content, {Open("code")}, {Close("code")})
        f == FenceMatch(content)
    IN  IF m.found THEN TrimSpace(m.group)
        ELSE IF f.found THEN TrimSpace(f.group)
        ELSE <<>>

\* case-insensitive: the markers match in either case
extractTag(content, tag) ==
    LET m == TagMatch(content, {Open(tag), OpenUp(tag)}, {Close(tag), CloseUp(tag)})
    IN  IF m.found THEN TrimSpace(m.group) ELSE <<>>

\* FindStringSubmatch of the one-line comment pattern: hash, white space,
\* opening marker, lazy group of at least one token and no line break,
\* closing marker.
CommentTagMatch(content, opens, closes) ==
    The({LET n == Len(t)
             OpenAt(i) == {o \in (i+1)..n : t[o] \in opens
                              /\ \A q \in (i+1)..(o-1) : IsSpace(t[q])}
             CloseAt(o) == {c \in (o+2)..n : t[c] \in closes
                               /\ \A q \in (o+1)..(c-1) : t[q] # NL}
             starts == {i \in 1..n : t[i] = Hash /\ \E o \in OpenAt(i) : CloseAt(o) # {}}
         IN  IF starts = {} THEN NoMatch
             ELSE LET i == SetMin(starts)
                      o == CHOOSE o \in OpenAt(i) : CloseAt(o) # {}
                      c == SetMin(CloseAt(o))
                  IN  Match(SubSeq(t, o+1, c-1))
         : t \in {content}})

\* strings.Split
RECURSIVE SplitOn(_, _)
SplitOn(s, sep) ==
    The({LET at == {i \in 1..Len(t) : t[i] = sep}
         IN  IF at = {} THEN <<t>>
             ELSE LET i == SetMin(at)
                  IN  <<SubSeq(t, 1, i-1)>> \o SplitOn(SubSeq(t, i+1, Len(t)), sep)
         : t \in {s}})

SplitLines(s) == SplitOn(s, NL)

\* strings.Join with line breaks
RECURSIVE JoinLines(_)
JoinLines(ls) ==
    The({IF Len(l) = 0 THEN <<>>
         ELSE IF Len(l) = 1 THEN l[1]
         ELSE l[1] \o <<NL>> \o JoinLines(Tail(l))
         : l \in {ls}})

\* openRe (hash, white space, opening marker) inside one line: the end of its
\* leftmost match, 0 if none
OpenReEnd(line, opens) ==
    The({LET n == Len(l)
             ends == {o \in 2..n : l[o] \in opens
                          /\ \E h \in 1..(o-1) : l[h] = Hash
                                 /\ \A q \in (h+1)..(o-1) : IsSpace(l[q])}
         IN  IF ends = {} THEN 0 ELSE SetMin(ends)
         : l \in {line}})

\* the line loop of extractCommentTag: lines 240..257
RECURSIVE CommentLines(_, _, _, _, _)
CommentLines(lines, inTag, result, opens, closes) ==
    The({IF Len(ls) = 0 THEN res
         ELSE LET line == Head(ls)
                  e == OpenReEnd(line, opens)
                  after == TrimSpace(SubSeq(line, e+1, Len(line)))
                  cleaned == TrimSpace(TrimHash(TrimSpace(line)))
              IN  IF ~inTag /\ e > 0
                  THEN CommentLines(Tail(ls), TRUE,
                           IF after # <<>> THEN Append(res, after) ELSE res,
                           opens, closes)
                  ELSE IF inTag
                  THEN IF \E i \in 1..Len(line) : line[i] \in closes
                       THEN res
                       ELSE CommentLines(Tail(ls), TRUE,
                                IF cleaned # <<>> THEN Append(res, cleaned) ELSE res,
                                opens, closes)
                  ELSE CommentLines(Tail(ls), FALSE, res, opens, closes)
         : ls \in {lines}, res \in {result}})

extractCommentTag(content, tag) ==
    LET opens == {Open(tag), OpenUp(tag)}
        closes == {Close(tag), CloseUp(tag)}
        m == CommentTagMatch(content, opens, closes)
    IN  IF m.found THEN TrimSpace(m.group)
        ELSE TrimSpace(JoinLines(CommentLines(SplitLines(content), FALSE, <<>>, opens, closes)))

firstNonEmpty(a, b) == IF a # <<>> THEN a ELSE IF b # <<>> THEN b ELSE <<>>

\* ----------------------------------------------------- Response Interpreter

ErrNoCode == "no <code> block found"
ErrNoTitle == "no <title> found"

NoMetadata == [x \in {} |-> <<>>]
NoArtifact == [Title |-> <<>>, Summary |-> <<>>, Metadata |-> NoMetadata, Code |-> <<>>]

ParseFail(e) == [result |-> NoArtifact, isNil |-> TRUE, err |-> e]
ParseOk(r) == [result |-> r, isNil |-> FALSE, err |-> "nil"]

parseResponse(content) ==
    LET Result(code, title, meta) ==
            IF code = <<>> THEN ParseFail(ErrNoCode)
            ELSE IF title = <<>> THEN ParseFail(ErrNoTitle)
            ELSE ParseOk([Code |-> code,
                          Title |-> title,
                          Summary |-> firstNonEmpty(extractTag(content, "summary"),
                                                    extractCommentTag(code, "summary")),
                          Metadata |-> IF meta # <<>>
                                       THEN [k \in {"subject", "perspective", "style"} |->
                                                extractTag(meta, k)]
                                       ELSE NoMetadata])
        Titled(code, t1) ==
            Result(code, IF t1 = <<>> THEN extractCommentTag(code, "title") ELSE t1,
                   extractTag(content, "metadata"))
    IN  Titled(extractCode(content), extractTag(content, "title"))

\* parseResponse of the first generation (package main): tags only
legacyParseResponse(content) ==
    LET code == extractCode(content)
        title == extractTag(content, "title")
    IN  IF code = <<>> THEN ParseFail(ErrNoCode)
        ELSE IF title = <<>> THEN ParseFail(ErrNoTitle)
        ELSE ParseOk([Code |-> code, Title |-> title,
                      Summary |-> extractTag(content, "summary"),
                      Metadata |-> NoMetadata])

\* ------------------------------------- plan and section texts (package artist)

NoPlanBlock == "no <plan> section found"
NoPlanTitle == "no title found in plan"

\* extractTag of package artist: case-sensitive
extractTagPlan(content, tag) ==
    LET m == TagMatch(content, {Open(tag)}, {Close(tag)})
    IN  IF m.found THEN TrimSpace(m.group) ELSE <<>>

extractSketchCode(content) ==
    LET c1 == extractTagPlan(content, "contours")
        c2 == extractTagPlan(content, "code")
        f == FenceMatch(content)
    IN  IF c1 # <<>> THEN c1
        ELSE IF c2 # <<>> THEN c2
        ELSE IF f.found THEN TrimSpace(f.group)
        ELSE <<>>

\* FindAllStringSubmatch of the tag pattern: the groups, left to right
RECURSIVE AllTagMatches(_, _, _)
AllTagMatches(content, open, close) ==
    The({LET n == Len(c)
             starts == {i \in 1..n : c[i] = open /\ \E j \in (i+1)..n : c[j] = close}
         IN  IF starts = {} THEN <<>>
             ELSE LET i == SetMin(starts)
                      j == SetMin({j \in (i+1)..n : c[j] = close})
                  IN  <<SubSeq(c, i+1, j-1)>> \o AllTagMatches(SubSeq(c, j+1, n), open, close)
         : c \in {content}})

\* the neighbour loop: trimmed, non-empty, in order
RECURSIVE TrimmedNonEmpty(_)
TrimmedNonEmpty(parts) ==
    The({IF Len(ps) = 0 THEN <<>>
         ELSE LET t == TrimSpace(Head(ps))
              IN  (IF t # <<>> THEN <<t>> ELSE <<>>) \o TrimmedNonEmpty(Tail(ps))
         : ps \in {parts}})

SectionOf(body) ==
    LET neighborsStr == extractTagPlan(body, "neighbors")
    IN  [Title |-> extractTagPlan(body, "title"),
         Description |-> extractTagPlan(body, "description"),
         Neighbors |-> IF neighborsStr # <<>>
                       THEN TrimmedNonEmpty(SplitOn(neighborsStr, Comma))
                       ELSE <<>>]

\* the metadata loop: key: value lines with both sides non-empty
RECURSIVE MetaEntries(_)
MetaEntries(lines) ==
    The({IF Len(ls) = 0 THEN <<>>
         ELSE LET line == Head(ls)
                  at == {i \in 1..Len(line) : line[i] = Colon}
                  key == TrimSpace(SubSeq(line, 1, SetMin(at) - 1))
                  val == TrimSpace(SubSeq(line, SetMin(at) + 1, Len(line)))
              IN  (IF at # {} /\ key # <<>> /\ val # <<>> THEN <<<<key, val>>>> ELSE <<>>)
                      \o MetaEntries(Tail(ls))
         : ls \in {lines}})

PlanMetadata(metaContent) ==
    The({LET keys == {es[i][1] : i \in 1..Len(es)}
         IN  [k \in keys |-> es[SetMax({i \in 1..Len(es) : es[i][1] = k})][2]]
         : es \in {MetaEntries(SplitLines(metaContent))}})

NoPlan == [Title |-> <<>>, Summary |-> <<>>, Subject |-> <<>>, Perspective |-> <<>>,
           Style |-> <<>>, Metadata |-> NoMetadata, Sections |-> <<>>, ContourCode |-> <<>>]

parsePlanResponse(content) ==
    The({LET planContent == m.group
             plan == [Title |-> extractTagPlan(planContent, "title"),
                      Summary |-> extractTagPlan(planContent, "summary"),
                      Subject |-> extractTagPlan(planContent, "subject"),
                      Perspective |-> extractTagPlan(planContent, "perspective"),
                      Style |-> extractTagPlan(planContent, "style"),
                      Metadata |-> PlanMetadata(extractTagPlan(planContent, "metadata")),
                      Sections |-> [i \in 1..Len(bodies) |-> SectionOf(bodies[i])],
                      ContourCode |-> extractSketchCode(content)]
         IN  IF ~m.found THEN [isNil |-> TRUE, err |-> NoPlanBlock, plan |-> NoPlan]
             ELSE IF plan.Title = <<>>
             THEN [isNil |-> TRUE, err |-> NoPlanTitle, plan |-> NoPlan]
             ELSE [isNil |-> FALSE, err |-> "nil", plan |-> plan]
         : m \in {TagMatch(content, {Open("plan")}, {Close("plan")})},
           bodies \in {AllTagMatches(extractTagPlan(
                                         TagMatch(content, {Open("plan")}, {Close("plan")}).group,
                                         "sections"),
                                     Open("section"), Close("section"))}})

\* Plan's user prompt
PlanPrompt(description) ==
    <<Txt("Create a sketch plan for the following request:"), NL, NL>> \o description
        \o <<NL, NL, Txt("Remember to: ...")>>

\* strings.Join(neighbors, ", ")
RECURSIVE JoinComma(_)
JoinComma(parts) ==
    IF Len(parts) = 0 THEN <<>>
    ELSE IF Len(parts) = 1 THEN parts[1]
    ELSE parts[1] \o <<Comma, SP>> \o JoinComma(Tail(parts))

\* ExpandSection's user prompt: lines 92..119
ExpandPrompt(plan, section, existingCode) ==
    <<Txt("Expand this section of the sketch with detailed SketchLang code."), NL,
      Txt("Title:")>> \o plan.Title
        \o <<NL, Txt("Summary:")>> \o plan.Summary
        \o <<NL, Txt("Style:")>> \o plan.Style
        \o <<NL, Txt("Perspective:")>> \o plan.Perspective
        \o <<NL, Txt("SECTION TO EXPAND:"), NL, Txt("Title:")>> \o section.Title
        \o <<NL, Txt("Description:")>> \o section.Description
        \o (IF Len(section.Neighbors) > 0
            THEN <<NL, Txt("This section connects to:")>> \o JoinComma(section.Neighbors)
                     \o <<Txt(". Ensure your strokes align at boundaries.")>>
            ELSE <<>>)
        \o <<NL, Txt("EXISTING CONTOUR CODE"), NL>> \o existingCode
        \o <<NL, Txt("Write NEW SketchLang code for this section only.")>>

\* line 365 and line 379 of Studio.Generate
ExpandedHeader == <<NL, NL, Hash, Txt("=== EXPANDED DETAILS ==="), NL>>
SectionHeader(title) == <<NL, NL, Hash, Txt("Section:")>> \o title \o <<NL>>

\* ------------------------------------------------------------------ state

VARIABLES
    pc,         \* position of the running pipeline
    cancelled,  \* ctx.Done() is closed
    cancelAt,   \* where the pipeline was when the context was cancelled
    gw,         \* the CompleteWithRetry call in flight
    truncs,     \* truncated responses produced so far
    comp,       \* the CompileWithOptions call in flight
    fs,         \* output files that exist: <<dir, name, ext>>
    validate,   \* Studio.generate's validate flag
    attempt,    \* createSketch: loop variable
    messages,   \* createSketch: the Conversation
    content,    \* completeWithContinuation: the assembled text
    resp,       \* completeWithContinuation: the last Completion
    ci,         \* completeWithContinuation: loop variable i
    result,     \* createSketch: the parse result of the current attempt
    lastResp,   \* createSketch: lastResp
    lastErr,    \* createSketch: lastErr
    ret,        \* createSketch: what it returned
    hist,       \* per attempt: the gateway exchanges and what was parsed / validated
    out,        \* what Studio.generate / Studio.Generate returned
    plan,       \* Studio.Generate: the parsed plan
    sketch,     \* Studio.Generate: the sketch object being built
    expandedCode, \* Studio.Generate: the accumulated code
    si,         \* Studio.Generate: the section being processed (1-based)
    frag,       \* Studio.Generate: expandedSection of the current section
    secRes,     \* Studio.Generate: per processed section, what happened
    pIn,        \* Response Interpreter on its own: input
    pOut,       \* Response Interpreter on its own: output
    cIn,        \* Compile Gate on its own: code, name, options, what the compiler does
    cOut        \* Compile Gate on its own: the results of the two calls

gwVars == <<gw, truncs>>
compVars == <<comp, fs>>
csVars == <<attempt, messages, content, resp, ci, result, lastResp, lastErr, ret, hist>>
parseVars == <<pIn, pOut>>
gateVars == <<cIn, cOut>>
secVars == <<plan, sketch, expandedCode, si, frag, secRes>>
vars == <<pc, cancelled, cancelAt, gw, truncs, comp, fs, validate, attempt, messages,
          content, resp, ci, result, lastResp, lastErr, ret, hist, out, pIn, pOut, cIn, cOut,
          plan, sketch, expandedCode, si, frag, secRes>>

\* ------------------------------------------------------ Completion Gateway

Msg(role, c) == [Role |-> role, Content |-> c]

NilResp == [isNil |-> TRUE, Content |-> <<>>, StopReason |-> "nil"]
Resp(c, stop) == [isNil |-> FALSE, Content |-> c, StopReason |-> stop]

\* Response.WasTruncated
WasTruncated(r) == r.StopReason = "max_tokens"

StopReasons == {"end_turn", "max_tokens"}

\* response bodies the model may send to a sketch request
WellFormed == <<Open("title"), Txt("t"), Close("title"), Open("code"), Txt("c"), Close("code")>>
MissingTitle == <<Open("code"), Txt("c"), Close("code")>>
OpenCode == <<Open("title"), Txt("t"), Close("title"), Open("code"), Txt("c")>>
ClosingChunk == <<Txt("d"), Close("code")>>
SketchBodies == {WellFormed, MissingTitle, OpenCode}
ContinuationBodies == {ClosingChunk}

\* response bodies the model may send to a plan request: a plan of n sections,
\* each naming its neighbours in the plan, and a plan without a title
SectionTitles == <<"s1", "s2", "s3", "s4", "s5">>
SectionText(i, n) ==
    <<Open("section"), Open("title"), Txt(SectionTitles[i]), Close("title"),
      Open("description"), Txt("d"), Close("description"), Open("neighbors")>>
        \o (IF i > 1 THEN <<Txt(SectionTitles[i-1])>> ELSE <<>>)
        \o (IF i > 1 /\ i < n THEN <<Comma, SP>> ELSE <<>>)
        \o (IF i < n THEN <<Txt(SectionTitles[i+1])>> ELSE <<>>)
        \o <<Close("neighbors"), Close("section"), NL>>
RECURSIVE SectionsText(_, _)
SectionsText(i, n) == IF i > n THEN <<>> ELSE SectionText(i, n) \o SectionsText(i + 1, n)
PlanText(n) ==
    <<Open("plan"), Open("title"), Txt("T"), Close("title"),
      Open("summary"), Txt("S"), Close("summary"),
      Open("style"), Txt("minimalist"), Close("style"),
      Open("metadata"), Txt("mood"), Colon, SP, Txt("calm"), Close("metadata"),
      Open("sections")>> \o SectionsText(1, n)
        \o <<Close("sections"), Close("plan"), NL,
             Open("contours"), Txt("contour"), Close("contours")>>
PlanWithoutTitle ==
    <<Open("plan"), Open("sections"), Close("sections"), Close("plan"),
      Open("contours"), Txt("contour"), Close("contours")>>
PlanBodies == {PlanText(MaxSections), PlanWithoutTitle}

\* response bodies the model may send to a section expansion
FragmentA == <<Open("code"), Txt("fa"), Close("code")>>
FragmentB == <<Open("code"), Txt("fb"), Close("code")>>
NoFragment == <<Txt("no code here")>>
ExpandBodies == {FragmentA, FragmentB, NoFragment}

BodiesFor(kind) ==
    IF kind = "continuation" THEN ContinuationBodies
    ELSE IF kind = "plan" THEN PlanBodies
    ELSE IF kind = "expand" THEN ExpandBodies
    ELSE SketchBodies

\* the stop reason is read by completeWithContinuation only
StopsFor(kind) ==
    IF kind \in {"sketch", "continuation"} THEN StopReasons ELSE {"end_turn"}

\* a delay that grows by one second per retry
BackoffLinear(i) == i + 1

\* line 175: 1 << uint(i)
RECURSIVE Pow2(_)
Pow2(i) == IF i = 0 THEN 1 ELSE 2 * Pow2(i - 1)

\* the errors Complete returns: a failed connection and a rejected API key
\* (API error (401)); CompleteWithRetry keeps the last one in lastErr
CompleteErrors == {"network", "unauthorized"}

GwIdle == [phase |-> "idle", kind |-> "none", i |-> 0, max |-> 0, msgs |-> <<>>,
           resp |-> NilResp, err |-> "nil", lastErr |-> "nil", backoff |-> 0]

\* entry of CompleteWithRetry: the loop starts at i = 0
GwCall(kind, msgs, max) ==
    [phase |-> IF 0 < max THEN "request" ELSE "returned", kind |-> kind, i |-> 0,
     max |-> max, msgs |-> msgs, resp |-> NilResp,
     err |-> IF 0 < max THEN "nil" ELSE "transport", lastErr |-> "nil", backoff |-> 0]

\* the return statements of lines 164, 171 and 179: lastErr is not part of them
GwReturn(g, r, e) ==
    [g EXCEPT !.phase = "returned", !.resp = r, !.err = e, !.lastErr = "nil", !.backoff = 0]

\* line 183: the error that wraps lastErr
GwExhausted(g) ==
    [g EXCEPT !.phase = "returned", !.resp = NilResp, !.err = "transport", !.backoff = 0]

\* a loop that does not look at the context after a failed Complete
AfterFailedRequestBlind(g, e, ctxDone) ==
    [g EXCEPT !.phase = "backoff", !.lastErr = e, !.backoff = Pow2(g.i)]

\* what the loop does after a failed Complete: lastErr, the ctx.Err() check, else
\* the backoff, whatever the error was
AfterFailedRequest(g, e, ctxDone) ==
    IF ctxDone THEN GwReturn(g, NilResp, "cancelled")
    ELSE [g EXCEPT !.phase = "backoff", !.lastErr = e, !.backoff = Pow2(g.i)]

\* what the loop does when time.After fires: i++ and the loop test
AfterBackoff(g) ==
    IF g.i + 1 < g.max
    THEN [g EXCEPT !.phase = "request", !.i = g.i + 1, !.backoff = 0]
    ELSE GwExhausted([g EXCEPT !.i = g.i + 1])

\* Complete returns a response: the request of a cancelled context never does
CompleteOk ==
    /\ gw.phase = "request"
    /\ ~cancelled
    /\ \E body \in BodiesFor(gw.kind), stop \in StopsFor(gw.kind) :
          /\ stop = "max_tokens" => truncs < MaxTruncated
          /\ gw' = GwReturn(gw, Resp(body, stop), "nil")
          /\ truncs' = IF stop = "max_tokens" THEN truncs + 1 ELSE truncs
    /\ UNCHANGED <<pc, cancelled, cancelAt, compVars, validate, csVars, out, parseVars, gateVars, secVars>>

\* Complete returns an error
CompleteFail ==
    /\ gw.phase = "request"
    /\ \E e \in CompleteErrors : gw' = AfterFailedRequest(gw, e, cancelled)
    /\ UNCHANGED <<pc, cancelled, cancelAt, truncs, compVars, validate, csVars, out, parseVars, gateVars, secVars>>

\* select: <-time.After(backoff). The goroutine waiting in the select is woken by
\* the first of the two channels that becomes ready, so the timer branch is the
\* one taken only when the timer fires before the context is cancelled
BackoffElapsed ==
    /\ gw.phase = "backoff"
    /\ ~cancelled
    /\ gw' = AfterBackoff(gw)
    /\ UNCHANGED <<pc, cancelled, cancelAt, truncs, compVars, validate, csVars, out, parseVars, gateVars, secVars>>

\* select: <-ctx.Done()
BackoffCancelled ==
    /\ gw.phase = "backoff"
    /\ cancelled
    /\ gw' = GwReturn(gw, NilResp, "cancelled")
    /\ UNCHANGED <<pc, cancelled, cancelAt, truncs, compVars, validate, csVars, out, parseVars, gateVars, secVars>>

\* ------------------------------------------------------------ Compile Gate

Warn == Tok("kw", "warning")
WarnUp == Tok("kw", "WARNING")

Options(svg, gcode, dir) == [GenSVG |-> svg, GenGCode |-> gcode, SubDir |-> dir]

\* behaviours of the external compiler and of the file system under it
Behaviour(io, exit, stderr, writes) ==
    [ioerr |-> io, exit |-> exit, stderr |-> stderr, writes |-> writes]
BehOk == Behaviour(FALSE, "ok", <<>>, {"svg", "txt"})
BehError == Behaviour(FALSE, "err", <<Txt("error e1"), NL, Txt("error e2")>>, {})
BehSilent == Behaviour(FALSE, "ok", <<>>, {})
BehIO == Behaviour(TRUE, "ok", <<>>, {})
PipelineBehaviours == {BehOk, BehError, BehSilent, BehIO}

ExitError == <<Txt("exit status 1")>>

NilResult == [isNil |-> TRUE, err |-> "io", Success |-> FALSE, SVGPath |-> <<>>,
              GCodePath |-> <<>>, Errors |-> <<>>, Warnings |-> <<>>]

\* a keyword test that tells upper case from lower case
HasWarningExact(line) == \E i \in 1..Len(line) : line[i] = Warn

HasWarning(line) == \E i \in 1..Len(line) : line[i] \in {Warn, WarnUp}

\* the stderr loop: trimmed non-blank lines, split into warnings and errors
RECURSIVE Classify(_, _)
Classify(lines, wantWarnings) ==
    The({IF Len(ls) = 0 THEN <<>>
         ELSE The({IF line # <<>> /\ HasWarning(line) = wantWarnings THEN <<line>> ELSE <<>>
                   : line \in {TrimSpace(Head(ls))}})
                  \o Classify(Tail(ls), wantWarnings)
         : ls \in {lines}})

\* a failed process that leaves the error list as the diagnostic output gave it
ExitDiagnosticsBare(errs) == errs

\* lines 172..174: the process error stands in when no error line was found
ExitDiagnostics(errs) == IF Len(errs) = 0 THEN <<ExitError>> ELSE errs

CompileWithOptions(files, code, name, opts, beh) ==
    LET dir == opts.SubDir
        written == files \cup {<<dir, name, "sketch">>}
        after == written \cup {<<dir, name, e>> : e \in beh.writes}
        lines == IF Len(beh.stderr) > 0 THEN SplitLines(beh.stderr) ELSE <<>>
        errs == Classify(lines, FALSE)
        warns == Classify(lines, TRUE)
        svg == IF <<dir, name, "svg">> \in after THEN <<dir, name, "svg">> ELSE <<>>
        gcode == IF <<dir, name, "txt">> \in after THEN <<dir, name, "txt">> ELSE <<>>
    IN  IF beh.ioerr THEN [ret |-> NilResult, fs |-> files]
        ELSE IF beh.exit = "err"
        THEN [ret |-> [isNil |-> FALSE, err |-> "nil", Success |-> FALSE,
                       SVGPath |-> <<>>, GCodePath |-> <<>>,
                       Errors |-> ExitDiagnostics(errs),
                       Warnings |-> warns],
              fs |-> after]
        ELSE [ret |-> [isNil |-> FALSE, err |-> "nil",
                       Success |-> \/ (opts.GenSVG /\ svg # <<>>)
                                   \/ (opts.GenGCode /\ gcode # <<>>)
                                   \/ (~opts.GenSVG /\ ~opts.GenGCode
                                         /\ (svg # <<>> \/ gcode # <<>>)),
                       SVGPath |-> svg, GCodePath |-> gcode,
                       Errors |-> errs, Warnings |-> warns],
              fs |-> after]

NoBehaviour == Behaviour(FALSE, "none", <<>>, {})
CompIdle == [phase |-> "idle", code |-> <<>>, name |-> <<>>, opts |-> Options(FALSE, FALSE, <<>>),
             ret |-> NilResult, beh |-> NoBehaviour]
CompCall(code, name, opts) ==
    [phase |-> "running", code |-> code, name |-> name, opts |-> opts, ret |-> NilResult,
     beh |-> NoBehaviour]

\* the external compiler runs to its end: it takes no context, so a cancelled
\* context does not stop it
CompileRun ==
    /\ comp.phase = "running"
    /\ \E beh \in PipelineBehaviours :
          \E r \in {CompileWithOptions(fs, comp.code, comp.name, comp.opts, beh)} :
              /\ comp' = [comp EXCEPT !.phase = "returned", !.ret = r.ret, !.beh = beh]
              /\ fs' = r.fs
    /\ UNCHANGED <<pc, cancelled, cancelAt, gwVars, validate, csVars, out, parseVars, gateVars, secVars>>

\* Studio.validateCode
validateCode(r) ==
    IF r.isNil THEN [ok |-> FALSE, errors |-> <<<<Txt("io error")>>>>]
    ELSE [ok |-> r.Success, errors |-> r.Errors]

\* ------------------------------------------------------- Turn Orchestrator

\* an error value that is lost where it is built
ErrLost(kind, cause, diags) == [kind |-> "nil", cause |-> "nil", diags |-> <<>>]

Err(kind, cause, diags) == [kind |-> kind, cause |-> cause, diags |-> diags]
NoErr == Err("nil", "nil", <<>>)

NilParse == ParseFail("nil result")

Event(ev, att, msgs, text, info) ==
    [ev |-> ev, attempt |-> att, msgs |-> msgs, text |-> text, info |-> info]
Log(S, e) == [S EXCEPT !.hist = Append(@, e)]

\* the error text as it is printed by %v
ErrText(e) ==
    IF e = ErrNoTitle THEN <<Txt("no"), Open("title"), Txt("found")>>
    ELSE IF e = ErrNoCode THEN <<Txt("no"), Open("code"), Txt("block found")>>
    ELSE <<Txt(e)>>

Description == <<Txt("a single straight line")>>
ContinueInstruction == <<Txt("Continue exactly where you left off. Do not repeat any code.")>>

\* an instruction that does not say what is missing
ParseFeedbackVague(e) == <<Txt("Parse error."), NL, NL, Txt("Please fix.")>>

\* the corrective instruction of line 71
ParseFeedback(e) ==
    <<Txt("Parse error:")>> \o ErrText(e)
        \o <<NL, NL, Txt("Please fix and include"), Open("title"), Open("summary"),
             Open("metadata"), Txt("and"), Open("code"), Txt("tags.")>>

\* a validation feedback worded as the parse feedback
CompileFeedbackAsParse(errors) ==
    <<Txt("Parse error:")>> \o JoinLines(errors)
        \o <<NL, NL, Txt("Please fix and include"), Open("title"), Open("summary"),
             Open("metadata"), Txt("and"), Open("code"), Txt("tags.")>>

\* the corrective instruction of line 82
CompileFeedback(errors) ==
    <<Txt("Compilation errors:"), NL>> \o JoinLines(errors)
        \o <<NL, NL, Txt("Please fix and provide corrected code.")>>

\* a retry that keeps the description and the last exchange only
appendRetryForgetful(msgs, assistantContent, userFeedback) ==
    <<msgs[1], Msg("assistant", assistantContent), Msg("user", userFeedback)>>

appendRetry(msgs, assistantContent, userFeedback) ==
    msgs \o <<Msg("assistant", assistantContent), Msg("user", userFeedback)>>

\* a continuation request that leaves out the Conversation
contMessagesBare(msgs, c) ==
    <<Msg("assistant", c), Msg("user", ContinueInstruction)>>

\* line 114: the messages of a continuation request
contMessages(msgs, c) ==
    msgs \o <<Msg("assistant", c), Msg("user", ContinueInstruction)>>

\* a directory name made from a title
sanitize(title) == <<"dir", title>>

NoSketch == [Title |-> <<>>, Summary |-> <<>>, Metadata |-> NoMetadata, Code |-> <<>>,
             SVGPath |-> <<>>]
NotReturned == [done |-> FALSE, ok |-> FALSE, msg |-> "", cause |-> NoErr, sketch |-> NoSketch]
GenFail(msg, e) == [done |-> TRUE, ok |-> FALSE, msg |-> msg, cause |-> e, sketch |-> NoSketch]
GenOk(sk) == [done |-> TRUE, ok |-> TRUE, msg |-> "", cause |-> NoErr, sketch |-> sk]

\* the locals of the running pipeline as one record
Cur == [pc |-> pc, gw |-> gw, comp |-> comp, attempt |-> attempt, messages |-> messages,
        content |-> content, resp |-> resp, ci |-> ci, result |-> result,
        lastResp |-> lastResp, lastErr |-> lastErr, ret |-> ret, hist |-> hist, out |-> out]

Apply(n) ==
    /\ pc' = n.pc
    /\ gw' = n.gw
    /\ comp' = n.comp
    /\ attempt' = n.attempt
    /\ messages' = n.messages
    /\ content' = n.content
    /\ resp' = n.resp
    /\ ci' = n.ci
    /\ result' = n.result
    /\ lastResp' = n.lastResp
    /\ lastErr' = n.lastErr
    /\ ret' = n.ret
    /\ hist' = n.hist
    /\ out' = n.out

\* Studio.generate, lines 77..98: createSketch has returned (r, rsp, e)
GenerateAfterCreate(S, r, rsp, e) ==
    LET S1 == Log([S EXCEPT !.ret = [result |-> r, resp |-> rsp, err |-> e]],
                  Event("return", S.attempt, <<>>, <<>>, e.kind))
    IN  IF e.kind # "nil"
        THEN [S1 EXCEPT !.out = GenFail("generation failed", e), !.pc = "done"]
        ELSE IF r.isNil \/ rsp.isNil
        THEN [S1 EXCEPT !.out = GenFail("panic: nil pointer dereference", e), !.pc = "done"]
        ELSE [S1 EXCEPT !.comp = CompCall(r.result.Code, <<"sketch">>,
                                          Options(TRUE, TRUE, sanitize(r.result.Title))),
                        !.pc = "g_compile"]

\* completeWithContinuation, line 97: the first request of an attempt
StartComplete(S) ==
    Log([S EXCEPT !.gw = GwCall("sketch", S.messages, sketchGatewayRetries),
                  !.pc = "cs_first"],
        Event("request", S.attempt, S.messages, <<>>, "first"))

\* the tests of lines 69 and 80
AttemptsRemain(a) == a < maxRetries

\* the loop without its attempt++
NextAttemptStuck(S) == StartComplete(S)

\* line 58: attempt++ and the loop test; line 92 when the loop ends
NextAttempt(S) ==
    LET S1 == [S EXCEPT !.attempt = @ + 1]
    IN  IF S1.attempt <= maxRetries THEN StartComplete(S1)
        ELSE GenerateAfterCreate(S1, NilParse, S1.lastResp, S1.lastErr)

\* a validator that is given the text of the response
ValidatedCodeRaw(p, c) == c

\* line 78: the argument of validate
ValidatedCode(p, c) == p.result.Code

\* createSketch, lines 64..90: the attempt's text c and last Completion rsp
AfterComplete(S, c, rsp) ==
    LET Parsed(p, S1) ==
            IF p.err # "nil"
            THEN IF AttemptsRemain(S.attempt)
                 THEN NextAttempt([S1 EXCEPT !.lastErr = Err("parse", p.err, <<>>),
                                             !.messages =
                                                 appendRetry(S.messages, c,
                                                             ParseFeedback(p.err))])
                 ELSE GenerateAfterCreate([S1 EXCEPT !.lastErr = Err("parse", p.err, <<>>)],
                                          NilParse, rsp, Err("parse failed", p.err, <<>>))
            ELSE IF validate
            THEN Log([S1 EXCEPT !.comp = CompCall(ValidatedCode(p, c), <<"validate">>,
                                                  Options(FALSE, FALSE, <<>>)),
                                !.pc = "cs_validate"],
                     Event("validate", S.attempt, <<>>, ValidatedCode(p, c), "call"))
            ELSE GenerateAfterCreate(S1, p, rsp, NoErr)
        Logged(p) ==
            Parsed(p, Log([S EXCEPT !.lastResp = rsp, !.result = p],
                          Event("parse", S.attempt, <<>>, c, p.err)))
    IN  Logged(parseResponse(c))

\* the loop giving up, instead of going on, when its budget is spent
ContinueLoopGivesUp(S) ==
    IF S.ci < maxContinuations
    THEN Log([S EXCEPT !.gw = GwCall("continuation", contMessages(S.messages, S.content),
                                     sketchGatewayRetries),
                       !.pc = "cs_cont"],
             Event("request", S.attempt, contMessages(S.messages, S.content), <<>>, "cont"))
    ELSE GenerateAfterCreate(S, NilParse, NilResp, Err("still truncated", "nil", <<>>))

\* a sub-loop with one continuation more than its budget
ContinueLoopOneMore(S) ==
    IF S.ci <= maxContinuations
    THEN Log([S EXCEPT !.gw = GwCall("continuation", contMessages(S.messages, S.content),
                                     sketchGatewayRetries),
                       !.pc = "cs_cont"],
             Event("request", S.attempt, contMessages(S.messages, S.content), <<>>, "cont"))
    ELSE AfterComplete(S, S.content, S.resp)

\* completeWithContinuation, line 113: the loop test, then the continuation request
ContinueLoop(S) ==
    IF S.ci < maxContinuations
    THEN Log([S EXCEPT !.gw = GwCall("continuation", contMessages(S.messages, S.content),
                                     sketchGatewayRetries),
                       !.pc = "cs_cont"],
             Event("request", S.attempt, contMessages(S.messages, S.content), <<>>, "cont"))
    ELSE AfterComplete(S, S.content, S.resp)

\* completeWithContinuation, lines 98..108: the first request has returned
FirstReturned(S) ==
    LET g == S.gw
        S0 == [S EXCEPT !.gw = GwIdle]
    IN  IF g.err # "nil"
        THEN GenerateAfterCreate(Log(S0, Event("gwerror", S.attempt, <<>>, <<>>, g.err)),
                                 NilParse, NilResp, Err("LLM request failed", g.err, <<>>))
        ELSE LET S1 == Log([S0 EXCEPT !.content = g.resp.Content, !.resp = g.resp],
                           Event("response", S.attempt, <<>>, g.resp.Content,
                                 g.resp.StopReason))
             IN  IF ~WasTruncated(g.resp) THEN AfterComplete(S1, S1.content, S1.resp)
                 ELSE ContinueLoop([S1 EXCEPT !.ci = 0])

\* the chunk put in front
AssembleInFront(c, chunk) == chunk \o c

\* line 125
Assemble(c, chunk) == c \o chunk

\* a sub-loop that keeps the Completion of its first request
ContReturnedKeepsFirst(S) ==
    LET g == S.gw
        S0 == [S EXCEPT !.gw = GwIdle]
    IN  IF g.err # "nil"
        THEN GenerateAfterCreate(Log(S0, Event("gwerror", S.attempt, <<>>, <<>>, g.err)),
                                 NilParse, NilResp,
                                 Err("continuation request failed", g.err, <<>>))
        ELSE LET S1 == Log([S0 EXCEPT !.content = Assemble(S.content, g.resp.Content)],
                           Event("response", S.attempt, <<>>, g.resp.Content,
                                 g.resp.StopReason))
             IN  IF ~WasTruncated(g.resp) THEN AfterComplete(S1, S1.content, S1.resp)
                 ELSE ContinueLoop([S1 EXCEPT !.ci = @ + 1])

\* a sub-loop that hands on the text it has when a continuation request fails
ContReturnedSalvages(S) ==
    LET g == S.gw
        S0 == [S EXCEPT !.gw = GwIdle]
    IN  IF g.err # "nil"
        THEN AfterComplete(Log(S0, Event("gwerror", S.attempt, <<>>, <<>>, g.err)),
                           S.content, S.resp)
        ELSE LET S1 == Log([S0 EXCEPT !.content = Assemble(S.content, g.resp.Content),
                                      !.resp = g.resp],
                           Event("response", S.attempt, <<>>, g.resp.Content,
                                 g.resp.StopReason))
             IN  IF ~WasTruncated(g.resp) THEN AfterComplete(S1, S1.content, S1.resp)
                 ELSE ContinueLoop([S1 EXCEPT !.ci = @ + 1])

\* completeWithContinuation, lines 120..136: a continuation request has returned
ContReturned(S) ==
    LET g == S.gw
        S0 == [S EXCEPT !.gw = GwIdle]
    IN  IF g.err # "nil"
        THEN GenerateAfterCreate(Log(S0, Event("gwerror", S.attempt, <<>>, <<>>, g.err)),
                                 NilParse, NilResp,
                                 Err("continuation request failed", g.err, <<>>))
        ELSE LET S1 == Log([S0 EXCEPT !.content = Assemble(S.content, g.resp.Content),
                                      !.resp = g.resp],
                           Event("response", S.attempt, <<>>, g.resp.Content,
                                 g.resp.StopReason))
             IN  IF ~WasTruncated(g.resp) THEN AfterComplete(S1, S1.content, S1.resp)
                 ELSE ContinueLoop([S1 EXCEPT !.ci = @ + 1])

\* a validator whose approval is followed by a corrective message all the same
ValidateReturnedNagging(S) ==
    LET v == validateCode(S.comp.ret)
        S0 == Log([S EXCEPT !.comp = CompIdle],
                  Event("validated", S.attempt, <<>>, JoinLines(v.errors),
                        IF v.ok THEN "ok" ELSE "failed"))
    IN  IF AttemptsRemain(S.attempt)
        THEN NextAttempt([S0 EXCEPT !.messages =
                             appendRetry(S.messages, S.content, CompileFeedback(v.errors))])
        ELSE GenerateAfterCreate(S0, S.result, S.resp, NoErr)

\* a terminal error that carries the diagnostics of the attempt before
ValidateReturnedStale(S) ==
    LET v == validateCode(S.comp.ret)
        S0 == Log([S EXCEPT !.comp = CompIdle],
                  Event("validated", S.attempt, <<>>, JoinLines(v.errors),
                        IF v.ok THEN "ok" ELSE "failed"))
    IN  IF ~v.ok
        THEN LET S1 == [S0 EXCEPT !.lastErr = Err("compilation errors", "nil", v.errors)]
             IN  IF AttemptsRemain(S.attempt)
                 THEN NextAttempt([S1 EXCEPT !.messages =
                                      appendRetry(S.messages, S.content,
                                                  CompileFeedback(v.errors))])
                 ELSE GenerateAfterCreate(S1, NilParse, S1.lastResp,
                                          Err("compilation failed", "nil", S.lastErr.diags))
        ELSE GenerateAfterCreate(S0, S.result, S.resp, NoErr)

\* createSketch, lines 78..87: the validator has returned
ValidateReturned(S) ==
    LET v == validateCode(S.comp.ret)
        S0 == Log([S EXCEPT !.comp = CompIdle],
                  Event("validated", S.attempt, <<>>, JoinLines(v.errors),
                        IF v.ok THEN "ok" ELSE "failed"))
    IN  IF ~v.ok
        THEN LET S1 == [S0 EXCEPT !.lastErr = Err("compilation errors", "nil", v.errors)]
             IN  IF AttemptsRemain(S.attempt)
                 THEN NextAttempt([S1 EXCEPT !.messages =
                                      appendRetry(S.messages, S.content,
                                                  CompileFeedback(v.errors))])
                 ELSE GenerateAfterCreate(S1, NilParse, S1.lastResp,
                                          Err("compilation failed", "nil", v.errors))
        ELSE GenerateAfterCreate(S0, S.result, S.resp, NoErr)

\* a compile of the sketch whose verdict is not looked at
SketchCompiledLax(S) ==
    LET r == S.comp.ret
        S0 == [S EXCEPT !.comp = CompIdle, !.pc = "done"]
        a == S.ret.result.result
    IN  IF r.isNil THEN [S0 EXCEPT !.out = GenFail("compilation error", Err("io", "nil", <<>>))]
        ELSE [S0 EXCEPT !.out = GenOk([Title |-> a.Title, Summary |-> a.Summary,
                                       Metadata |-> a.Metadata, Code |-> a.Code,
                                       SVGPath |-> r.SVGPath])]

\* Studio.generate, lines 99..118: the compile of the sketch has returned
SketchCompiled(S) ==
    LET r == S.comp.ret
        S0 == [S EXCEPT !.comp = CompIdle, !.pc = "done"]
        a == S.ret.result.result
    IN  IF r.isNil THEN [S0 EXCEPT !.out = GenFail("compilation error", Err("io", "nil", <<>>))]
        ELSE IF ~r.Success
        THEN [S0 EXCEPT !.out = GenFail("compilation failed", Err("compile", "nil", r.Errors))]
        ELSE [S0 EXCEPT !.out = GenOk([Title |-> a.Title, Summary |-> a.Summary,
                                       Metadata |-> a.Metadata, Code |-> a.Code,
                                       SVGPath |-> r.SVGPath])]

PipelineUnchanged == UNCHANGED <<cancelled, cancelAt, truncs, fs, validate, parseVars, gateVars, secVars>>

\* Studio.generate enters createSketch: lines 52..60
CreateSketchStart ==
    /\ pc = "start"
    /\ \E n \in {StartComplete([Cur EXCEPT !.messages = <<Msg("user", Description)>>,
                                             !.attempt = 0])} : Apply(n)
    /\ PipelineUnchanged

CreateSketchFirst ==
    /\ pc = "cs_first"
    /\ gw.phase = "returned"
    /\ \E n \in {FirstReturned(Cur)} : Apply(n)
    /\ PipelineUnchanged

CreateSketchCont ==
    /\ pc = "cs_cont"
    /\ gw.phase = "returned"
    /\ \E n \in {ContReturned(Cur)} : Apply(n)
    /\ PipelineUnchanged

CreateSketchValidated ==
    /\ pc = "cs_validate"
    /\ comp.phase = "returned"
    /\ \E n \in {ValidateReturned(Cur)} : Apply(n)
    /\ PipelineUnchanged

GenerateCompiled ==
    /\ pc = "g_compile"
    /\ comp.phase = "returned"
    /\ \E n \in {SketchCompiled(Cur)} : Apply(n)
    /\ PipelineUnchanged

\* ----------------------------------------------- Studio.Generate (sections)

NoSketchG == [Summary |-> [Title |-> <<>>], Sections |-> <<>>, Contours |-> <<>>]

\* the locals of the running sectioned pipeline as one record
CurG == [pc |-> pc, gw |-> gw, comp |-> comp, out |-> out, plan |-> plan, sketch |-> sketch,
         expandedCode |-> expandedCode, si |-> si, frag |-> frag, secRes |-> secRes]

ApplyG(n) ==
    /\ pc' = n.pc
    /\ gw' = n.gw
    /\ comp' = n.comp
    /\ out' = n.out
    /\ plan' = n.plan
    /\ sketch' = n.sketch
    /\ expandedCode' = n.expandedCode
    /\ si' = n.si
    /\ frag' = n.frag
    /\ secRes' = n.secRes

\* Artist.Plan, lines 67..69: the one request of Plan
PlanRequest(S) ==
    [S EXCEPT !.gw = GwCall("plan", <<Msg("user", PlanPrompt(Description))>>,
                            planGatewayRetries),
              !.pc = "g_plan"]

\* Artist.Plan, lines 70..81: what Plan returns once the gateway has returned g
PlanResult(g) ==
    IF g.err # "nil"
    THEN [isNil |-> TRUE, plan |-> NoPlan,
          err |-> Err("failed to get plan from LLM", g.err, <<>>)]
    ELSE LET p == parsePlanResponse(g.resp.Content)
         IN  IF p.err # "nil"
             THEN [isNil |-> TRUE, plan |-> NoPlan,
                   err |-> Err("failed to parse plan response", p.err, <<>>)]
             ELSE [isNil |-> FALSE, plan |-> p.plan, err |-> NoErr]

\* the options of lines 312..316, 381..385 and 414..418
OutputOpts(p) == Options(TRUE, TRUE, sanitize(p.Title))

\* Studio.Generate, lines 286..320: Plan has returned; the contour compile is called
PlanReturned(S) ==
    LET r == PlanResult(S.gw)
        S0 == [S EXCEPT !.gw = GwIdle]
    IN  IF r.err.kind # "nil"
        THEN [S0 EXCEPT !.out = GenFail("planning failed", r.err), !.pc = "done"]
        ELSE [S0 EXCEPT !.plan = r.plan,
                        !.comp = CompCall(r.plan.ContourCode, <<"contours">>,
                                          OutputOpts(r.plan)),
                        !.pc = "g_contour"]

\* lines 339..359: the sketch object
NewSections(p) ==
    [i \in 1..Len(p.Sections) |->
        [Title |-> p.Sections[i].Title, Description |-> p.Sections[i].Description,
         Neighbors |-> p.Sections[i].Neighbors, Content |-> <<>>, Expanded |-> FALSE]]
NewSketch(p) ==
    [Summary |-> [Title |-> p.Title, Summary |-> p.Summary, Subject |-> p.Subject,
                  Perspective |-> p.Perspective, Style |-> p.Style,
                  Metadata |-> p.Metadata],
     Sections |-> NewSections(p), Contours |-> p.ContourCode]

\* Artist.ExpandSection, lines 122..135: what it returns once the gateway has returned g
ExpandResult(g) ==
    IF g.err # "nil"
    THEN [code |-> <<>>, err |-> Err("failed to expand section", g.err, <<>>)]
    ELSE LET code == extractSketchCode(g.resp.Content)
         IN  IF code = <<>>
             THEN [code |-> <<>>,
                   err |-> Err("no SketchLang code found in response", "nil", <<>>)]
             ELSE [code |-> code, err |-> NoErr]

\* the fragment put in front of the accumulated code
TestCodeFragmentFirst(code, section, expandedSection) ==
    expandedSection \o SectionHeader(section.Title) \o code

\* a candidate made of the fragment alone
TestCodeFragmentOnly(code, section, expandedSection) == expandedSection

\* line 378 and line 379
SectionName(section) == <<"expanded", sanitize(section.Title)>>
TestCode(code, section, expandedSection) ==
    code \o SectionHeader(section.Title) \o expandedSection

\* a commit that sets the flag and does not store the fragment
IncorporateFlagOnly(acc, i, testCode, expandedSection) ==
    [code |-> testCode,
     sections |-> [acc.sections EXCEPT ![i].Expanded = TRUE]]

\* lines 403..405
Incorporate(acc, i, testCode, expandedSection) ==
    [code |-> testCode,
     sections |-> [acc.sections EXCEPT ![i].Content = expandedSection,
                                       ![i].Expanded = TRUE]]

\* a skip that leaves a mark in the accumulated code
SkipDirty(acc) == [acc EXCEPT !.code = @ \o <<Hash, Txt("skipped")>>]

\* the continue statements of lines 374, 389 and 397
Skip(acc) == acc

\* a gate that lets through every candidate the compiler has run on
AfterSectionCompileLax(acc, i, testCode, expandedSection, r) ==
    IF r.isNil THEN Skip(acc)
    ELSE Incorporate(acc, i, testCode, expandedSection)

\* a gate that keeps a rejected candidate as the accumulated code
AfterSectionCompileKeepsFailed(acc, i, testCode, expandedSection, r) ==
    IF r.isNil THEN Skip(acc)
    ELSE IF ~r.Success THEN [acc EXCEPT !.code = testCode]
    ELSE Incorporate(acc, i, testCode, expandedSection)

\* lines 386..405: the compile of the candidate has returned r
AfterSectionCompile(acc, i, testCode, expandedSection, r) ==
    IF r.isNil THEN Skip(acc)
    ELSE IF ~r.Success THEN Skip(acc)
    ELSE Incorporate(acc, i, testCode, expandedSection)

CompileOutcome(r) ==
    IF r.isNil THEN "compile_error"
    ELSE IF ~r.Success THEN "compile_failed"
    ELSE "incorporated"

\* what happened to one section: the reply of the gateway, the files and the
\* accumulated code the section met, the compiler's behaviour, the outcome
SectionRecord(title, reply, files, before, outcome) ==
    [title |-> title, reply |-> reply, files |-> files, beh |-> NoBehaviour,
     outcome |-> outcome, before |-> before, after |-> before]

\* an expansion that is shown the accumulated code
ExistingCodeAccumulated(S) == S.expandedCode

\* line 371: the existingCode argument of ExpandSection
ExistingCode(S) == S.plan.ContourCode

\* line 367 and line 414: the loop test, then ExpandSection or the final compile
SectionLoop(S) ==
    IF S.si <= Len(S.plan.Sections)
    THEN [S EXCEPT !.gw = GwCall("expand",
                                 <<Msg("user", ExpandPrompt(S.plan, S.plan.Sections[S.si],
                                                            ExistingCode(S)))>>,
                                 planGatewayRetries),
                   !.pc = "g_expand"]
    ELSE [S EXCEPT !.comp = CompCall(S.expandedCode, <<"final">>, OutputOpts(S.plan)),
                   !.pc = "g_final"]

\* a loop that stays on the section it has just left
NextSectionAgain(S) == SectionLoop(S)

\* a loop that passes over the section after the one it has just left
NextSectionSkipping(S) == SectionLoop([S EXCEPT !.si = @ + 2])

NextSection(S) == SectionLoop([S EXCEPT !.si = @ + 1])

\* a contour compile whose verdict is not looked at
ContourCompiledLax(S) ==
    LET r == S.comp.ret
        S0 == [S EXCEPT !.comp = CompIdle]
    IN  IF r.isNil
        THEN [S0 EXCEPT !.out = GenFail("contour compilation error", Err("io", "nil", <<>>)),
                        !.pc = "done"]
        ELSE SectionLoop([S0 EXCEPT !.sketch = NewSketch(S.plan),
                                    !.expandedCode = S.plan.ContourCode \o ExpandedHeader,
                                    !.si = 1])

\* lines 320..367: the contour compile has returned
ContourCompiled(S) ==
    LET r == S.comp.ret
        S0 == [S EXCEPT !.comp = CompIdle]
    IN  IF r.isNil
        THEN [S0 EXCEPT !.out = GenFail("contour compilation error", Err("io", "nil", <<>>)),
                        !.pc = "done"]
        ELSE IF ~r.Success
        THEN [S0 EXCEPT !.out = GenFail("contour compilation failed",
                                        Err("compile", "nil", r.Errors)),
                        !.pc = "done"]
        ELSE SectionLoop([S0 EXCEPT !.sketch = NewSketch(S.plan),
                                    !.expandedCode = S.plan.ContourCode \o ExpandedHeader,
                                    !.si = 1])

\* lines 371..385: ExpandSection has returned; files is the file system at that time
ExpandReturned(S, files) ==
    LET g == S.gw
        e == ExpandResult(g)
        section == S.plan.Sections[S.si]
        reply == [resp |-> g.resp, err |-> g.err]
        S0 == [S EXCEPT !.gw = GwIdle]
    IN  IF e.err.kind # "nil"
        THEN NextSection([S0 EXCEPT !.secRes =
                 Append(@, SectionRecord(section.Title, reply, files, S.expandedCode,
                                         "expansion_error"))])
        ELSE [S0 EXCEPT !.frag = e.code,
                        !.comp = CompCall(TestCode(S.expandedCode, section, e.code),
                                          SectionName(section), OutputOpts(S.plan)),
                        !.secRes = Append(@, SectionRecord(section.Title, reply, files,
                                                           S.expandedCode, "pending")),
                        !.pc = "g_section"]

\* lines 386..406: the compile of the candidate has returned
SectionCompiled(S) ==
    LET r == S.comp.ret
        acc == AfterSectionCompile([code |-> S.expandedCode, sections |-> S.sketch.Sections],
                                   S.si, S.comp.code, S.frag, r)
        n == Len(S.secRes)
    IN  NextSection([S EXCEPT !.comp = CompIdle,
                              !.expandedCode = acc.code,
                              !.sketch.Sections = acc.sections,
                              !.secRes[n] = [@ EXCEPT !.beh = S.comp.beh,
                                                      !.outcome = CompileOutcome(r),
                                                      !.after = acc.code]])

\* a final compile whose verdict decides the run
FinalCompiledGated(S) ==
    LET r == S.comp.ret
        S0 == [S EXCEPT !.comp = CompIdle, !.pc = "done"]
    IN  IF r.isNil
        THEN [S0 EXCEPT !.out = GenFail("final compilation error", Err("io", "nil", <<>>))]
        ELSE IF ~r.Success
        THEN [S0 EXCEPT !.out = GenFail("final compilation failed",
                                        Err("compile", "nil", r.Errors))]
        ELSE [S0 EXCEPT !.out = GenOk(S.sketch)]

\* lines 419..435: the final compile has returned
FinalCompiled(S) ==
    LET r == S.comp.ret
        S0 == [S EXCEPT !.comp = CompIdle, !.pc = "done"]
    IN  IF r.isNil
        THEN [S0 EXCEPT !.out = GenFail("final compilation error", Err("io", "nil", <<>>))]
        ELSE [S0 EXCEPT !.out = GenOk(S.sketch)]

\* one pass of the loop of lines 367..406 over the sections idx of the plan, as a
\* function of the replies and compiler behaviours env gives for them
RECURSIVE SectionPass(_, _, _, _, _)
SectionPass(acc, files, p, idx, env) ==
    IF Len(idx) = 0 THEN acc
    ELSE LET i == Head(idx)
             section == p.Sections[i]
             e == ExpandResult(env[i].reply)
             testCode == TestCode(acc.code, section, e.code)
             c == CompileWithOptions(files, testCode, SectionName(section),
                                     OutputOpts(p), env[i].beh)
         IN  IF e.err.kind # "nil"
             THEN SectionPass(Skip(acc), files, p, Tail(idx), env)
             ELSE SectionPass(AfterSectionCompile(acc, i, testCode, e.code, c.ret),
                              c.fs, p, Tail(idx), env)

SectionsUnchanged ==
    UNCHANGED <<cancelled, cancelAt, truncs, fs, validate, csVars, parseVars, gateVars>>

GeneratePlan ==
    /\ pc = "g_start"
    /\ \E n \in {PlanRequest(CurG)} : ApplyG(n)
    /\ SectionsUnchanged

GeneratePlanned ==
    /\ pc = "g_plan"
    /\ gw.phase = "returned"
    /\ \E n \in {PlanReturned(CurG)} : ApplyG(n)
    /\ SectionsUnchanged

GenerateContours ==
    /\ pc = "g_contour"
    /\ comp.phase = "returned"
    /\ \E n \in {ContourCompiled(CurG)} : ApplyG(n)
    /\ SectionsUnchanged

GenerateExpanded ==
    /\ pc = "g_expand"
    /\ gw.phase = "returned"
    /\ \E n \in {ExpandReturned(CurG, fs)} : ApplyG(n)
    /\ SectionsUnchanged

GenerateSectionCompiled ==
    /\ pc = "g_section"
    /\ comp.phase = "returned"
    /\ \E n \in {SectionCompiled(CurG)} : ApplyG(n)
    /\ SectionsUnchanged

GenerateFinal ==
    /\ pc = "g_final"
    /\ comp.phase = "returned"
    /\ \E n \in {FinalCompiled(CurG)} : ApplyG(n)
    /\ SectionsUnchanged

\* the interrupt handler of main: cancel()
Cancel ==
    /\ ~cancelled
    /\ gw.phase \in {"request", "backoff"} \/ comp.phase = "running"
    /\ cancelled' = TRUE
    /\ cancelAt' = IF comp.phase = "running" THEN "compile" ELSE "gateway"
    /\ UNCHANGED <<pc, gwVars, compVars, validate, csVars, out, parseVars, gateVars, secVars>>

Idle ==
    /\ cancelled = FALSE
    /\ cancelAt = "never"
    /\ gw = GwIdle
    /\ truncs = 0
    /\ comp = CompIdle
    /\ attempt = 0
    /\ messages = <<>>
    /\ content = <<>>
    /\ resp = NilResp
    /\ ci = 0
    /\ result = NilParse
    /\ lastResp = NilResp
    /\ lastErr = NoErr
    /\ ret = [result |-> NilParse, resp |-> NilResp, err |-> NoErr]
    /\ hist = <<>>
    /\ out = NotReturned
    /\ plan = NoPlan
    /\ sketch = NoSketchG
    /\ expandedCode = <<>>
    /\ si = 0
    /\ frag = <<>>
    /\ secRes = <<>>

NoGateInput == [code |-> <<>>, name |-> <<>>, opts |-> Options(FALSE, FALSE, <<>>),
                beh |-> NoBehaviour]
NoGateOutput == [first |-> NilResult, second |-> NilResult]

NoParses == [cur |-> NilParse, legacy |-> NilParse, sketchCode |-> <<>>]

Init ==
    /\ pc = "start"
    /\ validate \in BOOLEAN
    /\ Idle
    /\ pIn = <<>>
    /\ pOut = NoParses
    /\ fs = {}
    /\ cIn = NoGateInput
    /\ cOut = NoGateOutput

Next ==
    \/ CreateSketchStart
    \/ CompleteOk
    \/ CompleteFail
    \/ BackoffElapsed
    \/ BackoffCancelled
    \/ CreateSketchFirst
    \/ CreateSketchCont
    \/ CompileRun
    \/ CreateSketchValidated
    \/ GenerateCompiled
    \/ Cancel

Spec == Init /\ [][Next]_vars

\* Studio.generate runs on one goroutine: a request ends with a response or an
\* error (the http.Client has a timeout), the timer of a backoff fires, and the
\* external compiler is taken to exit
FairSpec == Spec /\ WF_vars(Next)

InitSections ==
    /\ pc = "g_start"
    /\ validate = FALSE
    /\ Idle
    /\ pIn = <<>>
    /\ pOut = NoParses
    /\ fs = {}
    /\ cIn = NoGateInput
    /\ cOut = NoGateOutput

NextSections ==
    \/ GeneratePlan
    \/ CompleteOk
    \/ CompleteFail
    \/ BackoffElapsed
    \/ BackoffCancelled
    \/ GeneratePlanned
    \/ CompileRun
    \/ GenerateContours
    \/ GenerateExpanded
    \/ GenerateSectionCompiled
    \/ GenerateFinal
    \/ Cancel

SpecSections == InitSections /\ [][NextSections]_vars

\* Studio.Generate runs on one goroutine that is never suspended for good: a
\* request ends with a response or an error (the http.Client has a timeout), the
\* timer of a backoff fires, and the external compiler is taken to exit
FairSections == SpecSections /\ WF_vars(NextSections)

\* ------------------------------------ the Response Interpreter on its own

\* pieces the input texts are made of
CodeBlock == <<Open("code"), Txt("c"), Close("code")>>
BlankCode == <<Open("code"), NL, Close("code")>>
TitleBlock == <<Open("title"), Txt("t"), Close("title")>>
BlankTitle == <<OpenUp("title"), SP, CloseUp("title")>>
FencedBlock == <<Fence, Lang, NL, Txt("c"), NL, Fence>>
CommentTitleOpen == <<Hash, SP, Open("title"), Txt("t")>>
CommentTitleCode ==
    <<Open("code"), Hash, SP, Open("title"), Txt("t"), Close("title"), NL, Txt("c"),
      Close("code")>>
ParseSegments ==
    {CodeBlock, BlankCode, TitleBlock, BlankTitle, FencedBlock, CommentTitleCode,
     CommentTitleOpen,
     <<Open("code")>>, <<Close("code")>>, <<Open("title")>>, <<CloseUp("title")>>,
     <<Txt("x")>>, <<NL>>, <<Hash>>, <<Fence>>}

RECURSIVE Flatten(_)
Flatten(segs) == IF Len(segs) = 0 THEN <<>> ELSE Head(segs) \o Flatten(Tail(segs))

ParseInputs ==
    {Flatten(q) : q \in UNION {[1..n -> ParseSegments] : n \in 0..MaxParseLen}}

InitParse ==
    /\ pc = "p_start"
    /\ validate = FALSE
    /\ Idle
    /\ pIn \in ParseInputs
    /\ pOut = NoParses
    /\ fs = {}
    /\ cIn = NoGateInput
    /\ cOut = NoGateOutput

ParseRun ==
    /\ pc = "p_start"
    /\ pc' = "p_done"
    /\ pOut' = [cur |-> parseResponse(pIn), legacy |-> legacyParseResponse(pIn),
                sketchCode |-> extractSketchCode(pIn)]
    /\ UNCHANGED <<cancelled, cancelAt, gwVars, compVars, validate, csVars, out, pIn, gateVars, secVars>>

NextParse == ParseRun

SpecParse == InitParse /\ [][NextParse]_vars

\* ------------------------------------------- the Compile Gate on its own

\* a compiler that succeeds and writes a line that is no warning to stderr, one
\* that succeeds with a warning, one that fails with a warning only
BehNoisy == Behaviour(FALSE, "ok", <<Txt("note n1"), NL, Txt("x"), Warn, Txt("w1")>>, {"svg"})
BehWarned == Behaviour(FALSE, "ok", <<SP, WarnUp, Txt("w2"), NL, NL>>, {"svg", "txt"})
BehCrash == Behaviour(FALSE, "err", <<Warn, Txt("w3")>>, {"txt"})
BehMixed == Behaviour(FALSE, "ok", <<Txt("e1"), NL, Warn, Txt("w1"), NL, SP, NL, SP, Txt("e2"), NL,
                                      Txt("w"), WarnUp, SP, NL, Txt("e1")>>, {"svg"})
GateBehaviours == PipelineBehaviours \cup {BehNoisy, BehWarned, BehCrash, BehMixed}

GateNames == {<<"validate">>, <<"sketch">>}
GateDirs == {<<>>, sanitize(<<Txt("T")>>)}
GateOptions == {Options(s, g, d) : s \in BOOLEAN, g \in BOOLEAN, d \in GateDirs}

\* output files an earlier run may have left in the directory
StaleFiles(opts, name) == SUBSET {<<opts.SubDir, name, "svg">>, <<opts.SubDir, name, "txt">>}

InitCompile ==
    /\ pc = "c_start"
    /\ validate = FALSE
    /\ Idle
    /\ pIn = <<>>
    /\ pOut = NoParses
    /\ cIn \in [code : {<<Txt("c")>>}, name : GateNames, opts : GateOptions,
                beh : GateBehaviours]
    /\ fs \in StaleFiles(cIn.opts, cIn.name)
    /\ cOut = NoGateOutput

\* the first call
GateCall ==
    /\ pc = "c_start"
    /\ \E r \in {CompileWithOptions(fs, cIn.code, cIn.name, cIn.opts, cIn.beh)} :
          /\ cOut' = [cOut EXCEPT !.first = r.ret]
          /\ fs' = r.fs
    /\ pc' = "c_called"
    /\ UNCHANGED <<cancelled, cancelAt, gwVars, comp, validate, csVars, out, parseVars, cIn,
                   secVars>>

\* the same call once more: the compiler does on the same input what it did before
GateCallAgain ==
    /\ pc = "c_called"
    /\ \E r \in {CompileWithOptions(fs, cIn.code, cIn.name, cIn.opts, cIn.beh)} :
          /\ cOut' = [cOut EXCEPT !.second = r.ret]
          /\ fs' = r.fs
    /\ pc' = "c_repeated"
    /\ UNCHANGED <<cancelled, cancelAt, gwVars, comp, validate, csVars, out, parseVars, cIn,
                   secVars>>

NextCompile == GateCall \/ GateCallAgain

SpecCompile == InitCompile /\ [][NextCompile]_vars

\* ====================================================== properties checked

\* positions of the events of one kind in the record of the run
Events(ev) == {i \in DOMAIN hist : hist[i].ev = ev}
ResponsesOf(a) == {i \in Events("response") : hist[i].attempt = a}
ContinuationsOf(a) == {i \in Events("request") : hist[i].attempt = a /\ hist[i].info = "cont"}
TruncatedAt(i) == hist[i].info = "max_tokens"

\* the texts of the events at the positions I, joined in the order of arrival
RECURSIVE BodiesInOrder(_)
BodiesInOrder(I) ==
    IF I = {} THEN <<>>
    ELSE LET i == SetMin(I) IN hist[i].text \o BodiesInOrder(I \ {i})

\* s occurs in t as a run of consecutive tokens
Occurs(s, t) == \E i \in 0..(Len(t) - Len(s)) : SubSeq(t, i + 1, i + Len(s)) = s

\* ---- C1

\* C1: one createSketch invocation parses at most maxRetries + 1 times and calls
\* the validator at most maxRetries + 1 times, whatever the gateway and the
\* validator answer; the attempt number of a parse is the number of parses
\* before it, so the continuation requests issued meanwhile use up no attempt.
C1_AttemptBudget ==
    /\ Cardinality(Events("parse")) <= maxRetries + 1
    /\ Cardinality(Events("validate")) <= maxRetries + 1
    /\ attempt <= maxRetries + 1
    /\ \A i \in Events("parse") :
          hist[i].attempt = Cardinality({j \in Events("parse") : j < i})

\* C1 witness: all maxRetries + 1 parses were made in a run that also issued
\* three continuation requests.
C1_Witness ==
    /\ Cardinality(Events("parse")) = maxRetries + 1
    /\ Cardinality({i \in Events("request") : hist[i].info = "cont"}) >= 3
    /\ ret.err.kind # "nil"

\* ---- C2

\* the attempt a got its first response and maxContinuations continuation
\* responses, every one of them truncated
BudgetExhausted(a) ==
    /\ Cardinality(ResponsesOf(a)) = maxContinuations + 1
    /\ \A i \in ResponsesOf(a) : TruncatedAt(i)

\* C2: when the first response of an attempt and all maxContinuations continuation
\* responses are truncated, the next thing that happens is the parse of the
\* assembled text: no error is returned in between and no further request is made.
C2_ParsesAfterExhaustion ==
    \A a \in 0..maxRetries :
        BudgetExhausted(a) =>
            LET last == SetMax(ResponsesOf(a))
            IN  /\ last + 1 \in Events("parse")
                /\ hist[last + 1].attempt = a
                /\ hist[last + 1].text = BodiesInOrder(ResponsesOf(a))
                /\ Cardinality(ContinuationsOf(a)) = maxContinuations
                /\ \A i \in Events("gwerror") : hist[i].attempt # a

\* C2 witness: an attempt whose four responses were all truncated has been parsed.
C2_Witness ==
    \E a \in 0..maxRetries :
        /\ BudgetExhausted(a)
        /\ \E i \in Events("parse") : hist[i].attempt = a /\ hist[i].info # "nil"

\* ---- C3

HasText(t) == \E i \in 1..Len(t) : ~IsSpace(t[i])
Contains(t, toks) == \E i \in 1..Len(t) : t[i] \in toks

\* what is asked of one result r of the interpreter for the input c
ArtifactOrFailure(r, c) ==
    /\ r.err = "nil" => ~r.isNil /\ HasText(r.result.Title) /\ HasText(r.result.Code)
    /\ r.err # "nil" => r.isNil /\ r.result = NoArtifact
    /\ ~Contains(c, {Open("code"), Fence}) => r.err # "nil"
    /\ ~Contains(c, {Open("title"), OpenUp("title")}) => r.err # "nil"
    /\ ~HasText(extractCode(c)) => r.err # "nil"

\* C3: a success of parseResponse carries a title and a code that hold text; an
\* input without a code block, with a blank code block, or without any title
\* marker gives an error and no artifact.  The same for the first-generation
\* parseResponse.
C3_ArtifactInvariant ==
    pc = "p_done" =>
        /\ ArtifactOrFailure(pOut.cur, pIn)
        /\ ArtifactOrFailure(pOut.legacy, pIn)
        /\ (pOut.cur.err = "nil" <=>
               /\ HasText(extractCode(pIn))
               /\ \/ HasText(extractTag(pIn, "title"))
                  \/ HasText(extractCommentTag(extractCode(pIn), "title")))

\* C3 witness: an input parseResponse accepts through the title it finds in a
\* comment of the code, which the first-generation parser rejects.
C3_Witness ==
    /\ pc = "p_done"
    /\ pOut.cur.err = "nil"
    /\ pOut.legacy.err = ErrNoTitle
    /\ HasText(pOut.cur.result.Title)

\* ---- C4

\* the run has returned from createSketch with an artifact
ReturnedArtifact == ret.err.kind = "nil" /\ Events("return") # {}

\* C4: a successful parse is followed at once by the validator call (when one is
\* supplied) or by the return; a validator approval is followed at once by the
\* return; nothing is requested, validated or appended after the return, which
\* hands back the parsed artifact, the attempt's last Completion and leaves the
\* Conversation as it was sent.  A well-formed first response (approved by the
\* validator, if any) ends the run after exactly one attempt.
C4_ImmediateReturn ==
    /\ \A i \in Events("parse") :
          hist[i].info = "nil" =>
              /\ i + 1 \in DOMAIN hist
              /\ hist[i + 1].ev = IF validate THEN "validate" ELSE "return"
              /\ hist[i + 1].attempt = hist[i].attempt
    /\ \A i \in Events("validated") :
          hist[i].info = "ok" =>
              /\ i + 1 \in Events("return")
              /\ hist[i + 1].info = "nil"
    /\ \A i \in Events("return") : i = Len(hist)
    /\ ReturnedArtifact =>
          LET p == SetMax(Events("parse"))
              a == hist[p].attempt
              first == SetMin({i \in Events("request") : hist[i].attempt = a})
          IN  /\ ret.result = parseResponse(hist[p].text)
              /\ ~ret.result.isNil
              /\ ret.resp.Content = hist[SetMax(ResponsesOf(a))].text
              /\ attempt = a
              /\ messages = hist[first].msgs
              /\ Len(messages) = 1 + 2 * a
    /\ (/\ Events("return") # {}
        /\ hist[2].ev = "response" /\ hist[2].text = WellFormed /\ ~TruncatedAt(2)
        /\ validate => (5 \in Events("validated") /\ hist[5].info = "ok"))
           => /\ ReturnedArtifact
              /\ Cardinality(Events("parse")) = 1
              /\ Cardinality(Events("request")) = 1
              /\ messages = <<Msg("user", Description)>>

\* C4 witness: a validated, well-formed first response has been returned after
\* one attempt.
C4_Witness ==
    /\ validate
    /\ ReturnedArtifact
    /\ attempt = 0
    /\ hist[2].text = WellFormed
    /\ Cardinality(Events("validated")) = 1

\* ---- C5

\* the first request of attempt a
FirstRequestOf(a) == SetMin({i \in Events("request") : hist[i].attempt = a})
\* the user messages of a Conversation after the opening description
Correctives(msgs) == {k \in 2..Len(msgs) : msgs[k].Role = "user"}
NamesMissingTitle(text) == Occurs(ErrText(ErrNoTitle), text)

\* attempts 0 and 1 were parsed without a title, attempt 2 was parsed well (and
\* approved by the validator, if any)
ScenarioB ==
    /\ \A a \in {0, 1} : \E i \in Events("parse") :
          hist[i].attempt = a /\ hist[i].info = ErrNoTitle
    /\ \E i \in Events("parse") : hist[i].attempt = 2 /\ hist[i].info = "nil"
    /\ validate => \E i \in Events("validated") : hist[i].attempt = 2 /\ hist[i].info = "ok"

\* C5: with maxRetries = 2, two attempts lacking the title followed by a valid
\* third end in success after exactly three attempts, and the Conversation sent
\* on attempt 2 holds exactly two corrective user messages, each naming the
\* missing title.
C5_TitleRetries ==
    ScenarioB =>
        LET sent == hist[FirstRequestOf(2)].msgs
        IN  /\ ReturnedArtifact
            /\ Cardinality(Events("parse")) = 3
            /\ attempt = 2
            /\ Cardinality(Correctives(sent)) = 2
            /\ \A k \in Correctives(sent) : NamesMissingTitle(sent[k].Content)
            /\ sent[1] = Msg("user", Description)
            /\ HasText(ret.result.result.Title)

\* C5 witness: the scenario has happened, under a validator.
C5_Witness == ScenarioB /\ validate /\ pc = "g_compile"

\* ---- C6

\* C6: the text parsed in an attempt is the concatenation, in the order of
\* arrival, of the bodies of all responses of that attempt; every response but
\* the last was truncated, and there were exactly as many continuation requests
\* as truncated responses among the first maxContinuations.
C6_Concatenation ==
    \A i \in Events("parse") :
        LET a == hist[i].attempt
            rs == ResponsesOf(a)
            k == Cardinality({j \in rs : TruncatedAt(j) /\ j # SetMax(rs)})
        IN  /\ rs # {}
            /\ hist[i].text = BodiesInOrder(rs)
            /\ Cardinality(rs) = k + 1
            /\ k <= maxContinuations
            /\ Cardinality(ContinuationsOf(a)) = k
            /\ TruncatedAt(SetMax(rs)) => k = maxContinuations
            /\ \A c \in ContinuationsOf(a) :
                  LET m == hist[c].msgs
                      before == {j \in rs : j < c}
                  IN  /\ m[Len(m)] = Msg("user", ContinueInstruction)
                      /\ m[Len(m) - 1] = Msg("assistant", BodiesInOrder(before))

\* C6 witness: truncated twice, then complete: two continuation requests and
\* three bodies in the parsed text, which is a usable sketch.
C6_Witness ==
    \E i \in Events("parse") :
        LET rs == ResponsesOf(hist[i].attempt)
        IN  /\ Cardinality(rs) = 3
            /\ ~TruncatedAt(SetMax(rs))
            /\ Cardinality(ContinuationsOf(hist[i].attempt)) = 2
            /\ hist[i].text = OpenCode \o ClosingChunk \o ClosingChunk
            /\ hist[i].info = "nil"

\* ---- C7

NumSections == Len(plan.Sections)
Settled == {j \in DOMAIN secRes : secRes[j].outcome # "pending"}
Skipped == {j \in Settled : secRes[j].outcome # "incorporated"}
\* the section loop has been entered; it has ended
PassEntered == Len(sketch.Sections) > 0
PassDone == PassEntered /\ pc \in {"g_final", "done"}
FailedValidation(j) == secRes[j].outcome \in {"compile_error", "compile_failed"}

\* the state the section loop starts from
PassBase == [code |-> plan.ContourCode \o ExpandedHeader, sections |-> NewSections(plan)]
AllSections == [i \in 1..NumSections |-> i]
Without(k) == [i \in 1..(NumSections - 1) |-> IF i < k THEN i ELSE i + 1]

IsPrefix(s, t) == Len(s) <= Len(t) /\ SubSeq(t, 1, Len(s)) = s

\* the blocks of the incorporated sections among the first n, in plan order
RECURSIVE Blocks(_)
Blocks(n) ==
    IF n = 0 THEN <<>>
    ELSE Blocks(n - 1) \o (IF sketch.Sections[n].Expanded
                            THEN SectionHeader(sketch.Sections[n].Title)
                                     \o sketch.Sections[n].Content
                            ELSE <<>>)

\* C8: during and after the pass the accumulated code is the contour code, the
\* heading, and the blocks (section heading and fragment) of exactly the
\* incorporated sections in plan order; a section is incorporated exactly when
\* its candidate passed the compile, with the code extracted from its reply as
\* fragment; no block of a skipped section occurs in it; and the accumulated code
\* every section left behind is still a prefix of it.
C8_AccumulatedCode ==
    PassEntered =>
        /\ expandedCode = plan.ContourCode \o ExpandedHeader \o Blocks(NumSections)
        /\ \A j \in 1..NumSections :
              /\ sketch.Sections[j].Expanded <=>
                     (j \in Settled /\ secRes[j].outcome = "incorporated")
              /\ sketch.Sections[j].Expanded =>
                     /\ sketch.Sections[j].Content = extractSketchCode(secRes[j].reply.resp.Content)
                     /\ HasText(sketch.Sections[j].Content)
                     /\ Occurs(SectionHeader(plan.Sections[j].Title)
                                   \o sketch.Sections[j].Content, expandedCode)
        /\ \A j \in Skipped :
              ~Occurs(SectionHeader(plan.Sections[j].Title), expandedCode)
        /\ \A j \in Settled :
              /\ IsPrefix(secRes[j].before, secRes[j].after)
              /\ IsPrefix(secRes[j].after, expandedCode)

\* C8 witness: three sections, the second fails its compile, the first and the
\* third are incorporated with different fragments.
C8_Witness ==
    /\ PassDone
    /\ NumSections >= 3
    /\ secRes[1].outcome = "incorporated"
    /\ secRes[2].outcome = "compile_failed"
    /\ secRes[3].outcome = "incorporated"
    /\ sketch.Sections[1].Content # sketch.Sections[3].Content
    /\ HasText(extractSketchCode(secRes[2].reply.resp.Content))

\* ---- C9

\* C9: a section whose expansion returned an error, or whose candidate's compile
\* returned an error or reported failure, stays not incorporated and leaves the
\* accumulated code as it found it; the run goes on with the next section of the
\* plan on that same code (or with the final compile after the last section), and
\* does not end in a failure because of it.
C9_SkipAndContinue ==
    \A j \in Skipped :
        /\ secRes[j].after = secRes[j].before
        /\ ~sketch.Sections[j].Expanded
        /\ sketch.Sections[j].Content = <<>>
        /\ j + 1 \in DOMAIN secRes => secRes[j + 1].before = secRes[j].before
        /\ j = Len(secRes) =>
              /\ expandedCode = secRes[j].before
              /\ IF j < NumSections
                 THEN /\ pc = "g_expand"
                      /\ si = j + 1
                      /\ gw.kind = "expand"
                      /\ gw.msgs = <<Msg("user", ExpandPrompt(plan, plan.Sections[j + 1],
                                                              plan.ContourCode))>>
                 ELSE /\ pc \in {"g_final", "done"}
                      /\ pc = "g_final" => comp.code = secRes[j].before
        /\ out.done => out.ok \/ out.msg = "final compilation error"

\* C9 witness: a run in which one section's expansion failed, one candidate's
\* compile returned an error and one candidate's compile reported failure, and
\* which returned its sketch.
C9_Witness ==
    /\ out.done /\ out.ok
    /\ \E j \in Skipped : secRes[j].outcome = "expansion_error"
    /\ \E j \in Skipped : secRes[j].outcome = "compile_error"
    /\ \E j \in Skipped : secRes[j].outcome = "compile_failed"

\* ---- C10

\* C10: once the context has been cancelled while a gateway call or a compile
\* call was in flight, the pipeline does not return a sketch as a success.
C10_CancelledNeverSucceeds ==
    cancelled /\ out.done => ~out.ok

\* ---- C11

\* the gateway gave up on a request of this run: its retries were used up
SketchTransportFailed == \E i \in Events("gwerror") : hist[i].info = "transport"
SectionTransportFailed == \E j \in DOMAIN secRes : secRes[j].reply.err = "transport"
PlanTransportFailed == out.msg = "planning failed" /\ out.cause.cause = "transport"

\* in createSketch the failure ends the run with the transport error as its cause
SketchTransportSurfaces ==
    SketchTransportFailed /\ pc = "done"
        => /\ ~out.ok
           /\ out.msg = "generation failed"
           /\ out.cause.kind \in {"LLM request failed", "continuation request failed"}
           /\ out.cause.cause = "transport"

\* C11: a run in which the gateway used up its retries on a request of a section
\* expansion never reports success.
C11_TransportFailureSurfaces == SectionTransportFailed /\ out.done => ~out.ok

\* ---- C12

\* the contour compile has returned without reporting success
ContourRejected == pc = "g_contour" /\ comp.phase = "returned"
                      /\ (comp.ret.isNil \/ ~comp.ret.Success)
ContourFailure == {"contour compilation error", "contour compilation failed"}

\* output files of a compile other than the contour compile
LaterFiles == {f \in fs : f[2] # <<"contours">>}

\* the run has ended on the contour compile and nothing came after it
EndedOnContour ==
    /\ pc = "done" /\ out.done /\ ~out.ok
    /\ gw = GwIdle /\ comp = CompIdle
    /\ secRes = <<>> /\ si = 0 /\ sketch = NoSketchG /\ expandedCode = <<>>
    /\ LaterFiles = {}

\* C12: when the contour compile returns an error or reports no success, the
\* next step of Studio.Generate is its return with a contour failure; no
\* ExpandSection request, no compile of a candidate and no final compile is
\* ever started in that run, and nothing happens after the return.
C12_ContourGate ==
    /\ [][ContourRejected => EndedOnContour' /\ out'.msg \in ContourFailure]_vars
    /\ [](out.msg \in ContourFailure => EndedOnContour)
    /\ [][out.msg \in ContourFailure => UNCHANGED vars]_vars

C12_Witness ==
    /\ out.msg = "contour compilation failed"
    /\ out.cause.diags # <<>>
    /\ <<sanitize(plan.Title), <<"contours">>, "sketch">> \in fs
    /\ Len(plan.Sections) = MaxSections

\* ---- C13

\* the final compile has returned a result
FinalReturned == pc = "g_final" /\ comp.phase = "returned" /\ ~comp.ret.isNil

\* the files the final compile of this run left behind
FinalFiles == {f[3] : f \in {g \in fs : g[2] = <<"final">>}}

\* C13: whatever the final compile reports in its result, Success or not, with
\* or without diagnostics, the next step of Studio.Generate is the return of
\* the sketch object without an error; a finished run whose final compile wrote
\* no output file is still a success.
C13_FinalCompileNotGating ==
    /\ [][FinalReturned => pc' = "done" /\ out' = GenOk(sketch) /\ sketch' = sketch]_vars
    /\ [](out.done /\ FinalFiles = {"sketch"} => out.ok /\ out.sketch = sketch)

C13_Witness ==
    /\ out.done /\ out.ok
    /\ FinalFiles = {"sketch"}
    /\ \E j \in DOMAIN out.sketch.Sections : out.sketch.Sections[j].Expanded

\* ---- C14

\* the first call reported success and the same call was made again
Repeated == pc = "c_repeated" /\ ~cOut.first.isNil /\ cOut.first.Success

\* the repeated call reports what the first call reported
GateRepeatable == Repeated => cOut.second = cOut.first

\* with a compiler that writes nothing but warnings to stderr when it succeeds
QuietRepeat == Repeated /\ Classify(SplitLines(cIn.beh.stderr), FALSE) = <<>>
                  => cOut.second.Success /\ cOut.second.Errors = <<>>

\* C14: after a call of the Compile Gate that reported success, the same call
\* with the same code, output name and options reports success again and its
\* error list is empty.
C14_Idempotence ==
    Repeated => ~cOut.second.isNil /\ cOut.second.Success /\ cOut.second.Errors = <<>>

\* ---- C15

\* the Conversation is the one attempt maxRetries was sent with
NothingAppended ==
    /\ messages = hist[FirstRequestOf(maxRetries)].msgs
    /\ Len(messages) = 1 + 2 * maxRetries

TerminalKinds == {"parse failed", "compilation failed"}

\* C15: when attempt maxRetries ends in a parse error, createSketch returns
\* at once a parse failure wrapping that error; when it ends in a rejection by
\* the validator, createSketch returns at once a compilation failure carrying
\* the diagnostics of that validator call; either way after maxRetries + 1
\* parses, without an artifact and with the Conversation as attempt maxRetries
\* was sent with.
C15_TerminalError ==
    /\ \A i \in Events("parse") :
          hist[i].attempt = maxRetries /\ hist[i].info # "nil" =>
              /\ i + 1 \in Events("return")
              /\ hist[i + 1].info = "parse failed"
              /\ ret.err = Err("parse failed", hist[i].info, <<>>)
              /\ hist[i].info = parseResponse(hist[i].text).err
              /\ NothingAppended
    /\ \A i \in Events("validated") :
          hist[i].attempt = maxRetries /\ hist[i].info = "failed" =>
              /\ i + 1 \in Events("return")
              /\ hist[i + 1].info = "compilation failed"
              /\ ret.err.kind = "compilation failed"
              /\ JoinLines(ret.err.diags) = hist[i].text
              /\ NothingAppended
    /\ ret.err.kind \in TerminalKinds =>
          /\ attempt = maxRetries
          /\ Cardinality(Events("parse")) = maxRetries + 1
          /\ ret.result.isNil
          /\ hist[Len(hist) - 1].ev = IF ret.err.kind = "parse failed" THEN "parse"
                                       ELSE "validated"
          /\ out = GenFail("generation failed", ret.err)

\* C15 witness: attempt 0 failed to parse, attempt 1 was rejected without any
\* diagnostic, attempt maxRetries was rejected with diagnostics and these are
\* what the terminal error carries.
C15_Witness ==
    /\ ret.err.kind = "compilation failed"
    /\ Len(ret.err.diags) = 2
    /\ \E i \in Events("parse") : hist[i].attempt = 0 /\ hist[i].info = ErrNoTitle
    /\ \E i \in Events("validated") :
          hist[i].attempt = 1 /\ hist[i].info = "failed" /\ hist[i].text = <<>>

\* ---- C16

\* the gateway has returned a plan response that parsePlanResponse rejects
MalformedPlan ==
    /\ pc = "g_plan" /\ gw.phase = "returned" /\ gw.err = "nil"
    /\ parsePlanResponse(gw.resp.Content).err # "nil"

\* the plan request sent again with the response and a corrective message
PlanReprompted ==
    /\ pc = "g_plan" /\ gw.kind = "plan" /\ gw.phase = "request"
    /\ Len(gw.msgs) = 3
    /\ gw.msgs[2].Role = "assistant" /\ gw.msgs[3].Role = "user"

\* C16: when the first plan response is malformed, the next step of plan
\* generation is a new request carrying the response and a corrective message,
\* and the run has not failed.
C16_PlanReprompts == [][MalformedPlan => PlanReprompted' /\ ~out'.done]_vars

\* what the code does instead: the run ends with a planning failure
PlanFailsAtOnce ==
    [][MalformedPlan => out' = GenFail("planning failed",
                                        Err("failed to parse plan response",
                                            parsePlanResponse(gw.resp.Content).err, <<>>))]_vars

\* ---- C17

\* the errors of Complete that no retry can cure
NonRetryable == {"unauthorized"}

\* C17: once Complete has failed with a non-retryable error, CompleteWithRetry
\* has returned: it is neither waiting for a backoff delay nor issuing another
\* request for that call.
C17_NonRetryableAborts == gw.lastErr \in NonRetryable => gw.phase = "returned"

\* what the code does instead: it waits the delay of the retry in which the
\* error came, and returns the error only when the retries are used up
RetriedLikeAnyOther ==
    gw.lastErr \in NonRetryable =>
        \/ gw.phase = "backoff" /\ gw.backoff = Pow2(gw.i)
        \/ gw.phase = "request" /\ gw.i \in 1..(gw.max - 1)
        \/ gw.phase = "returned" /\ gw.err = "transport" /\ gw.i = gw.max

\* ---- C18

\* a step that calls ExpandSection; a step that calls the compile of a candidate
ExpandCalled == pc' = "g_expand" /\ gw'.phase = "request" /\ gw.phase \in {"idle", "returned"}
CandidateCalled == pc' = "g_section" /\ comp'.phase = "running" /\ comp.phase # "running"

\* the report: one entry per section of the plan, marked Expanded or not
Report(sk) ==
    /\ Len(sk.Sections) = NumSections
    /\ \A j \in 1..NumSections :
          /\ sk.Sections[j].Title = plan.Sections[j].Title
          /\ sk.Sections[j].Expanded <=> secRes[j].outcome = "incorporated"

Started == {hist[i].attempt : i \in Events("request")}
Sent(a) == hist[FirstRequestOf(a)].msgs
\* the parse of attempt a
ParseOf(a) == CHOOSE i \in Events("parse") : hist[i].attempt = a

\* attempt a has come to its end in a failure that allows another attempt
Resolved(i, a) ==
    /\ hist[i].attempt = a
    /\ \/ hist[i].ev = "parse" /\ hist[i].info # "nil"
       \/ hist[i].ev = "validated" /\ hist[i].info = "failed"
    /\ LET last == SetMax(ResponsesOf(a))
       IN  /\ last < i
           /\ TruncatedAt(last) => Cardinality(ContinuationsOf(a)) = maxContinuations
           /\ hist[ParseOf(a)].text = BodiesInOrder(ResponsesOf(a))

\* C19: the Conversation only ever grows at its end; attempt n+1 is sent with
\* the messages attempt n was sent with followed by exactly two more, the
\* assistant message holding the whole text of attempt n and one user message;
\* the events of the attempts follow one another in the order of the attempts,
\* and the first request of attempt n+1 comes directly after the failed parse
\* or failed validation of attempt n, whose continuation requests have all been
\* answered by then; the continuation requests themselves add nothing to the
\* Conversation.
C19_CumulativeConversation ==
    /\ [][IsPrefix(messages, messages')]_vars
    /\ [](\A a \in Started :
            /\ a > 0 =>
                  /\ a - 1 \in Started
                  /\ IsPrefix(Sent(a - 1), Sent(a))
                  /\ Len(Sent(a)) = Len(Sent(a - 1)) + 2
                  /\ Sent(a)[Len(Sent(a)) - 1] = Msg("assistant", hist[ParseOf(a - 1)].text)
                  /\ Sent(a)[Len(Sent(a))].Role = "user"
                  /\ Resolved(FirstRequestOf(a) - 1, a - 1)
            /\ \A i \in ContinuationsOf(a) :
                  /\ IsPrefix(Sent(a), hist[i].msgs)
                  /\ Len(hist[i].msgs) = Len(Sent(a)) + 2)
    /\ [](\A i, j \in DOMAIN hist : i < j => hist[i].attempt <= hist[j].attempt)
    /\ [](pc \in {"cs_first", "cs_cont", "cs_validate"} => messages = Sent(attempt))

\* C19 witness: attempt 2 has been sent with five messages, after an attempt 0
\* that needed a continuation and failed to parse and an attempt 1 that the
\* validator rejected.
C19_Witness ==
    /\ 2 \in Started
    /\ Len(Sent(2)) = 5
    /\ ContinuationsOf(0) # {}
    /\ hist[ParseOf(0)].info # "nil"
    /\ \E i \in Events("validated") : hist[i].attempt = 1 /\ hist[i].info = "failed"

\* ---- C20

\* the corrective user message attempt a was sent with, and the event that
\* ended attempt a - 1
Corrective(a) == Sent(a)[Len(Sent(a))].Content
EndOf(a) == hist[FirstRequestOf(a + 1) - 1]
ParseWording == <<Txt("Parse error:")>>
CompileWording == <<Txt("Compilation errors:"), NL>>
RequiredTags == {Open("title"), Open("summary"), Open("metadata"), Open("code")}

\* C20: the corrective user message of every attempt after the first matches
\* the failure that ended the attempt before it: after a failed parse it is
\* "Parse error:" followed by the text of that parse error and an instruction
\* naming the title, summary, metadata and code tags, and it does not have the
\* compilation wording; after a failed validation it is "Compilation errors:",
\* a line break, that attempt's diagnostics joined by line breaks and the
\* request for corrected code, and it does not have the parse wording.
C20_CorrectiveMatchesFailure ==
    \A a \in Started : a > 0 =>
        LET u == Corrective(a)
            e == EndOf(a - 1)
        IN  /\ e.attempt = a - 1
            /\ e.ev \in {"parse", "validated"}
            /\ e.ev = "parse" =>
                  /\ e.info # "nil"
                  /\ IsPrefix(ParseWording \o ErrText(e.info), u)
                  /\ \A t \in RequiredTags : Occurs(<<t>>, u)
                  /\ ~Occurs(CompileWording, u)
            /\ e.ev = "validated" =>
                  /\ e.info = "failed"
                  /\ u = CompileWording \o e.text
                          \o <<NL, NL, Txt("Please fix and provide corrected code.")>>
                  /\ ~Occurs(ParseWording, u)
                  /\ hist[ParseOf(a - 1)].info = "nil"

\* C20 witness: attempt 2 has been sent after an attempt 0 that failed to parse
\* and an attempt 1 whose code the validator rejected with two diagnostics, so
\* the Conversation holds one corrective message of each kind.
C20_Witness ==
    /\ 2 \in Started
    /\ EndOf(0).ev = "parse"
    /\ EndOf(1).ev = "validated"
    /\ Occurs(<<NL>>, EndOf(1).text)
    /\ Occurs(ParseWording, Sent(2)[3].Content)
    /\ Occurs(CompileWording, Sent(2)[5].Content)

\* ---- C21

\* an ExpandSection call is in flight or has just returned; its user prompt
Expanding == pc = "g_expand" /\ gw.kind = "expand"
ExpandInput == gw.msgs[1].Content
ContextPart(code) ==
    <<NL, Txt("EXISTING CONTOUR CODE"), NL>> \o code
        \o <<NL, Txt("Write NEW SketchLang code for this section only.")>>

\* C21: the one message of every ExpandSection call of Studio.Generate is the
\* prompt built from the plan, the section being expanded and the plan's
\* contour code: its existing-code part holds the contour code and nothing
\* else, no fragment of an earlier section and no expanded-details header occurs
\* in it, and the whole prompt is the same whatever happened to the sections
\* before (it is a function of the plan and the section's position alone).
C21_ExpansionSeesContour ==
    Expanding =>
        /\ Len(gw.msgs) = 1
        /\ gw.msgs[1].Role = "user"
        /\ si \in 1..NumSections
        /\ Len(secRes) = si - 1
        /\ ExpandInput = ExpandPrompt(plan, plan.Sections[si], plan.ContourCode)
        /\ Occurs(ContextPart(plan.ContourCode), ExpandInput)
        /\ ~Occurs(ExpandedHeader, ExpandInput)
        /\ \A j \in 1..Len(secRes) :
              secRes[j].outcome = "incorporated" =>
                  /\ sketch.Sections[j].Content # <<>>
                  /\ Occurs(sketch.Sections[j].Content, expandedCode)
                  /\ ~Occurs(sketch.Sections[j].Content, ExpandInput)

\* C21 witness: the expansion of the third section has been requested after the
\* first section was incorporated and the second was skipped.
C21_Witness ==
    /\ Expanding
    /\ gw.phase = "request"
    /\ si = 3
    /\ secRes[1].outcome = "incorporated"
    /\ secRes[2].outcome # "incorporated"
    /\ expandedCode # plan.ContourCode \o ExpandedHeader

\* ---- C22

\* the candidate of the current section is at the Compile Gate; the gate has
\* answered it with success
AtGate == pc = "g_section"
GateSaidYes == comp.phase = "returned" /\ ~comp.ret.isNil /\ comp.ret.Success
\* the step of Studio.Generate that takes the gate's answer
Decided == AtGate /\ pc' # "g_section"

\* C22: the code at the Compile Gate for a section is the accumulated code as
\* it is at that time, the section heading and the fragment extracted from the
\* section's reply, under the section's output name, and it is never the
\* fragment alone; and the step that takes the gate's answer makes the candidate
\* the accumulated code and marks the section incorporated with that fragment
\* when the answer is success, and leaves the accumulated code and the
\* section entries as they were for any other answer.
C22_WholeCandidateGated ==
    /\ [](AtGate =>
            /\ si \in 1..NumSections
            /\ HasText(frag)
            /\ frag = extractSketchCode(secRes[si].reply.resp.Content)
            /\ comp.code = expandedCode \o SectionHeader(plan.Sections[si].Title) \o frag
            /\ comp.code # frag
            /\ comp.name = <<"expanded", sanitize(plan.Sections[si].Title)>>
            /\ ~sketch.Sections[si].Expanded
            /\ expandedCode = plan.ContourCode \o ExpandedHeader \o Blocks(si - 1))
    /\ [][Decided =>
            IF GateSaidYes
            THEN /\ expandedCode' = comp.code
                 /\ sketch'.Sections = [sketch.Sections EXCEPT ![si].Expanded = TRUE,
                                                                 ![si].Content = frag]
            ELSE /\ expandedCode' = expandedCode
                 /\ sketch' = sketch]_vars

\* C22 witness: the second section has been incorporated on top of the first:
\* the accumulated code it met held the first fragment, and the accumulated code
\* it left is that code followed by its own heading and fragment.
C22_Witness ==
    /\ Len(secRes) >= 2
    /\ secRes[1].outcome = "incorporated"
    /\ secRes[2].outcome = "incorporated"
    /\ Occurs(sketch.Sections[1].Content, secRes[2].before)
    /\ secRes[2].after = secRes[2].before \o SectionHeader(plan.Sections[2].Title)
                             \o sketch.Sections[2].Content
    /\ expandedCode = secRes[2].after

\* ---- C23

\* where the block (heading and fragment) of section j starts in the
\* accumulated code
Block(j) == SectionHeader(sketch.Sections[j].Title) \o sketch.Sections[j].Content
StartsOf(s, t) == {i \in 1..(Len(t) - Len(s) + 1) : SubSeq(t, i, i + Len(s) - 1) = s}
Incorporated == {j \in 1..Len(sketch.Sections) : sketch.Sections[j].Expanded}

\* C23: the sections are decided in plan order, one at a time: the j-th
\* decision recorded is about the j-th section of the plan; only the last
\* recorded section can be undecided; while the candidate of section i is at the
\* Compile Gate, and in the step that commits it, the sections before i are all
\* decided and none after i has been touched; a decision once taken is not
\* changed by a later step; and in the accumulated code the block of an
\* incorporated section occurs once and starts after the end of the block of
\* every earlier incorporated section.
C23_PlanOrder ==
    /\ [](PassEntered =>
            /\ Len(secRes) <= NumSections
            /\ \A j \in DOMAIN secRes :
                  /\ secRes[j].title = plan.Sections[j].Title
                  /\ j < Len(secRes) => j \in Settled
            /\ \A j \in 1..NumSections : j > Len(secRes) => ~sketch.Sections[j].Expanded
            /\ AtGate => si = Len(secRes) /\ secRes[si].outcome = "pending"
            /\ \A j \in Incorporated : Cardinality(StartsOf(Block(j), expandedCode)) = 1
            /\ \A j, k \in Incorporated :
                  j < k => SetMin(StartsOf(Block(j), expandedCode)) + Len(Block(j))
                               <= SetMin(StartsOf(Block(k), expandedCode)))
    /\ [][/\ Decided => /\ si = Len(secRes)
                        /\ \A j \in 1..(si - 1) : j \in Settled
                        /\ Settled' = Settled \cup {si}
                        /\ \A j \in 1..NumSections :
                              j # si => sketch'.Sections[j] = sketch.Sections[j]
          /\ \A j \in Settled : j \in DOMAIN secRes' /\ secRes'[j] = secRes[j]]_vars

\* C23 witness: a run of three sections has returned its sketch; the first and
\* the third section are incorporated, the second failed its compile, and the
\* block of the first starts before the block of the third.
C23_Witness ==
    /\ pc = "done" /\ out.ok
    /\ Incorporated = {1, 3}
    /\ secRes[2].outcome = "compile_failed"
    /\ SetMin(StartsOf(Block(1), expandedCode)) < SetMin(StartsOf(Block(3), expandedCode))

\* ---- C24

\* a CompleteWithRetry call is running: it waits for Complete or for the backoff
GwRunning == gw.phase \in {"request", "backoff"}
\* the call has returned the context's error and no response
ReturnedCancelled == gw.phase = "returned" /\ gw.err = "cancelled" /\ gw.resp = NilResp

\* C24: the next step of a running CompleteWithRetry call whose context is
\* cancelled, be it the return of the failed request or the end of the backoff
\* wait, is its return with the cancellation error and without a response: the
\* loop index does not advance and no request is issued between the
\* cancellation and the return.
C24_CancelStopsRetries ==
    [][cancelled /\ GwRunning /\ gw' # gw =>
           /\ gw'.phase = "returned"
           /\ gw'.err = "cancelled"
           /\ gw'.resp = NilResp
           /\ gw'.i = gw.i
           /\ gw'.msgs = gw.msgs]_vars

\* C24 witness: a call has returned the cancellation error at loop index 1, that
\* is after its first request failed, the first backoff elapsed and the
\* context was cancelled during the second request or the second backoff.
C24_Witness ==
    /\ cancelled
    /\ cancelAt = "gateway"
    /\ ReturnedCancelled
    /\ gw.i = 1

\* ---- C25

\* the requests a running or returned CompleteWithRetry call has issued so far:
\* one per value the loop index has taken below max
Issued == IF gw.phase = "idle" THEN 0
          ELSE IF gw.i < gw.max THEN gw.i + 1 ELSE gw.max

\* C25: a CompleteWithRetry call with maxRetries = n never has more than n
\* requests issued; a request is issued only at the start of the call or after
\* a backoff that elapsed without cancellation, and it advances the loop index
\* by one; the step in which a request is answered returns that response and
\* no error at the same loop index; the delay waited after the failure of
\* request i is 2^i seconds; the call reports exhaustion only when all n
\* requests have failed; and a cancelled context ends the backoff wait by the
\* return of the call.
C25_BoundedExponentialRetry ==
    /\ [](/\ Issued <= gw.max
          /\ gw.phase = "request" => gw.i < gw.max
          /\ gw.phase = "backoff" => gw.i < gw.max /\ gw.backoff = 2 ^ gw.i
          /\ gw.phase = "returned" /\ gw.err = "transport" => gw.i = gw.max
          /\ gw.phase = "returned" /\ gw.err = "nil" => ~gw.resp.isNil /\ gw.i < gw.max)
    /\ [][/\ gw'.phase = "request" /\ gw' # gw =>
                \/ gw.phase \in {"idle", "returned"} /\ gw'.i = 0
                \/ gw.phase = "backoff" /\ ~cancelled /\ gw'.i = gw.i + 1
                       /\ gw'.max = gw.max /\ gw'.msgs = gw.msgs
          /\ gw.phase = "request" /\ gw' # gw =>
                \/ gw'.phase = "returned" /\ gw'.i = gw.i
                \/ gw'.phase = "backoff" /\ gw'.i = gw.i /\ gw'.resp = NilResp
          /\ gw.phase = "backoff" /\ cancelled /\ gw' # gw =>
                gw'.phase = "returned" /\ gw'.err = "cancelled"]_vars

\* C25 witness: a call with maxRetries = 3 is in the backoff after the failure
\* of its third request and waits four seconds.
C25_Witness ==
    /\ gw.phase = "backoff"
    /\ gw.max = 3
    /\ gw.i = 2
    /\ gw.backoff = 4

\* ---- C26

\* the first call has returned; what the same call returns in a directory
\* without output files of earlier calls
Called == pc = "c_called"
CleanResult == CompileWithOptions({}, cIn.code, cIn.name, cIn.opts, cIn.beh).ret

\* the compiler fails, or the call fails before the compiler runs, or the
\* compiler writes both output files itself
OutputsRewritten ==
    cIn.beh.ioerr \/ cIn.beh.exit = "err" \/ {"svg", "txt"} \subseteq cIn.beh.writes

\* when the call overwrites every output file or fails, older files do not matter
FreshOutputsDecide == Called /\ OutputsRewritten => cOut.first = CleanResult

\* C26: the result of a CompileWithOptions call (success flag, artifact paths
\* and diagnostics) is the result the same call has, with the compiler doing
\* the same, in a directory that holds no output files of an earlier call with
\* that output name.
C26_StatelessGate ==
    Called => cOut.first = CleanResult

\* ---- C27

\* the compiler was run by the first call; the lines of its diagnostic output
\* without the surrounding white space, the blank ones left out
Compiled == pc \in {"c_called", "c_repeated"} /\ ~cOut.first.isNil
IsBlank(line) == \A i \in 1..Len(line) : IsSpace(line[i])
Stripped(line) == TrimSpace(line)
MapStripped(lines) == [i \in 1..Len(lines) |-> Stripped(lines[i])]
NonBlank(line) == ~IsBlank(line)
Diagnostics == MapStripped(SelectSeq(SplitLines(cIn.beh.stderr), NonBlank))
Keyword(line) == \E i \in 1..Len(line) : line[i].k = "kw"
NoKeyword(line) == ~Keyword(line)

\* C27: after every compile in which the compiler was run, the warning list
\* is the sequence of the non-blank lines of the compiler's diagnostic output
\* that hold the keyword in either case, and the error list is the sequence of
\* the non-blank lines that do not, each list in the order of the output and
\* each line once per occurrence; only when the compiler failed and gave no
\* error line does the error list hold one entry that is not a line of the
\* output, the text of the exit error.
C27_DiagnosticsPartition ==
    Compiled =>
        /\ cOut.first.Warnings = SelectSeq(Diagnostics, Keyword)
        /\ cOut.first.Errors =
              IF cIn.beh.exit = "err" /\ SelectSeq(Diagnostics, NoKeyword) = <<>>
              THEN <<ExitError>>
              ELSE SelectSeq(Diagnostics, NoKeyword)
        /\ cIn.beh.exit # "err" =>
              Len(cOut.first.Warnings) + Len(cOut.first.Errors) = Len(Diagnostics)

\* C27 witness: a compile whose diagnostic output has errors and warnings in
\* turn, blank lines between them, an upper-case keyword and one error line
\* twice: two warnings and three errors are reported, the repeated line as the
\* first and the last error.
C27_Witness ==
    /\ Compiled
    /\ Len(Diagnostics) = 5
    /\ Len(cOut.first.Warnings) = 2
    /\ Len(cOut.first.Errors) = 3
    /\ cOut.first.Errors[1] = cOut.first.Errors[3]
    /\ cOut.first.Errors[1] # cOut.first.Errors[2]
    /\ WarnUp \in {cOut.first.Warnings[2][i] : i \in 1..Len(cOut.first.Warnings[2])}

\* ---- C28

\* the text has been interpreted; its first code marker pair and its first
\* fenced block
Parsed == pc = "p_done"
CodeMarker == TagMatch(pIn, {Open("code")}, {Close("code")})
Fenced == FenceMatch(pIn)
\* the code the priority rule selects: the marker's content when the marker is
\* present, else the fenced block's content, else nothing
ByPriority ==
    IF CodeMarker.found THEN TrimSpace(CodeMarker.group)
    ELSE IF Fenced.found THEN TrimSpace(Fenced.group)
    ELSE <<>>
TitleByPriority ==
    IF extractTag(pIn, "title") # <<>> THEN extractTag(pIn, "title")
    ELSE extractCommentTag(ByPriority, "title")

\* parseResponse follows the priority: it fails for want of code exactly when
\* the selected code is empty, and an artifact has the selected code and the
\* title of the title tag, or of the comment in the code when the tag gives none
InterpreterPriority ==
    Parsed =>
        /\ pOut.cur.err = ErrNoCode <=> ByPriority = <<>>
        /\ ~pOut.cur.isNil =>
              /\ pOut.cur.result.Code = ByPriority
              /\ pOut.cur.result.Title = TitleByPriority
        /\ pOut.cur.err = ErrNoTitle <=> ByPriority # <<>> /\ TitleByPriority = <<>>

\* C28: every extraction of code from a response selects by the same
\* priority: the content of the code marker when the marker is present, the
\* fenced block only when no code marker is present, and a failure of the
\* interpreter when the selected code is empty; the title comes from the title
\* tag before the comment fallback. This is stated for parseResponse and for
\* extractSketchCode on texts without a contours marker.
C28_ExtractionPriority ==
    /\ InterpreterPriority
    /\ Parsed => pOut.sketchCode = ByPriority

\* ---- C29

\* the verdict the Compile Gate gave on the candidate of section j: the call
\* of that section again, on the files and with the compiler behaviour it met
GateVerdict(j, candidate) ==
    CompileWithOptions(secRes[j].files, candidate, <<"expanded", sanitize(plan.Sections[j].Title)>>,
                       Options(TRUE, TRUE, sanitize(plan.Title)), secRes[j].beh).ret
\* code is the candidate of a decided section and the gate reported success on it
Accepted(code) ==
    \E j \in Settled :
        /\ code = secRes[j].before \o SectionHeader(plan.Sections[j].Title)
                      \o extractSketchCode(secRes[j].reply.resp.Content)
        /\ secRes[j].reply.err = "nil"
        /\ ~GateVerdict(j, code).isNil
        /\ GateVerdict(j, code).Success
InitialBase == plan.ContourCode \o ExpandedHeader

\* C29: from the start of the section pass on, the accumulated code is the
\* initial base (the contour code and the expanded-details header) or the
\* candidate of a decided section on which the Compile Gate reported success;
\* and the code of the final compile is the accumulated code, so it is one of
\* the two as well.
C29_AccumulatedIsValidated ==
    PassEntered =>
        /\ expandedCode = InitialBase \/ Accepted(expandedCode)
        /\ pc = "g_final" =>
              /\ comp.code = expandedCode
              /\ comp.code = InitialBase \/ Accepted(comp.code)

\* C29 witness: the final compile runs on a candidate the gate accepted, after
\* a pass in which a later section's candidate was rejected by the gate.
C29_Witness ==
    /\ pc = "g_final"
    /\ comp.code # InitialBase
    /\ Accepted(comp.code)
    /\ \E j, k \in Settled :
          j < k /\ secRes[j].outcome = "incorporated" /\ secRes[k].outcome = "compile_failed"

\* ---- C30

\* createSketch has returned; ret holds its three results
CreateReturned == Events("return") # {}
NilArtifact == ret.result.isNil
NilError == ret.err.kind = "nil"

\* C30: createSketch returns once, and what it returns is either no artifact
\* with an error or an artifact with no error, never both and never neither;
\* an artifact comes with its Completion and has code and a title; so the
\* caller, which goes on to the compile only after a nil error, finds the
\* artifact and the Completion it reads, and no run ends in a nil dereference.
C30_ArtifactXorError ==
    /\ CreateReturned =>
          /\ Cardinality(Events("return")) = 1
          /\ NilArtifact <=> ~NilError
          /\ ~NilArtifact =>
                /\ ret.err = [kind |-> "nil", cause |-> "nil", diags |-> <<>>]
                /\ ~ret.resp.isNil
                /\ HasText(ret.result.result.Code)
                /\ HasText(ret.result.result.Title)
          /\ NilArtifact => out.done /\ ~out.ok /\ out.msg = "generation failed"
    /\ pc = "g_compile" => CreateReturned /\ ~NilArtifact /\ ~ret.resp.isNil
    /\ out.msg # "panic: nil pointer dereference"

\* C30 witness: createSketch has returned an artifact and its Completion from
\* its last attempt, after a parse failure and a validation failure, and the
\* caller has gone on to the compile.
C30_Witness ==
    /\ CreateReturned
    /\ validate
    /\ attempt = maxRetries
    /\ ~NilArtifact /\ NilError /\ ~ret.resp.isNil
    /\ pc = "g_compile"
    /\ \E i \in Events("parse") : hist[i].info # "nil"
    /\ \E i \in Events("validated") : hist[i].info = "failed"

\* ---- C31

\* the compile of the generated sketch has returned; Studio.generate takes its answer
SketchCompileBack == pc = "g_compile" /\ comp.phase = "returned"
SketchCompileTaken == SketchCompileBack /\ pc' = "done"
\* the validator accepted the code createSketch returned
ValidatorAccepted ==
    \E i \in Events("validate"), j \in Events("validated") :
        /\ i < j
        /\ hist[i].attempt = hist[j].attempt
        /\ hist[i].text = ret.result.result.Code
        /\ hist[j].info = "ok"

\* C31: Studio.generate returns a Sketch only in the step that takes the
\* answer of the compile made after createSketch, and only when that compile
\* was made on the code of the returned artifact under the name "sketch" and
\* reported success; any other answer of that compile makes the run fail,
\* whether or not the validator had accepted the code; and the Sketch returned
\* has the artifact's code and the image of that compile.
C31_FinalCompileDecides ==
    /\ [](pc = "g_compile" =>
            /\ comp.code = ret.result.result.Code
            /\ comp.name = <<"sketch">>
            /\ ~out.done)
    /\ [](out.done /\ out.ok =>
            /\ pc = "done"
            /\ out.sketch.Code = ret.result.result.Code
            /\ out.sketch.SVGPath # <<>> \/ <<sanitize(ret.result.result.Title), <<"sketch">>, "txt">> \in fs)
    /\ [][/\ SketchCompileTaken =>
                /\ out'.done
                /\ out'.ok <=> (~comp.ret.isNil /\ comp.ret.Success)
                /\ out'.ok => out'.sketch.Code = comp.code /\ out'.sketch.SVGPath = comp.ret.SVGPath
                /\ ~out'.ok => out'.msg \in {"compilation error", "compilation failed"}
          /\ ~out.ok /\ out'.ok => SketchCompileTaken]_vars

\* C31 witness: the run has failed on the compile of a sketch whose code the
\* validator had accepted during generation.
C31_Witness ==
    /\ validate
    /\ out.done /\ ~out.ok
    /\ out.msg = "compilation failed"
    /\ ~NilArtifact
    /\ ValidatorAccepted

\* ---- C32

\* the gateway failures recorded, and those of a continuation request: the
\* request before the failure is a continuation request of the same attempt
GatewayFailures == Events("gwerror")
InContinuation(i) ==
    /\ i > 1
    /\ hist[i - 1].ev = "request"
    /\ hist[i - 1].info = "cont"
    /\ hist[i - 1].attempt = hist[i].attempt
EventsOfAttempt(ev, a) == {k \in Events(ev) : hist[k].attempt = a}

\* C32: a gateway failure during the continuation sub-loop of an attempt is
\* followed by the return of createSketch and by nothing else: the return has no
\* artifact and no Completion and its error is the failed continuation request
\* wrapping the gateway's error; the attempt had assembled text from at least
\* one response, and that text was not parsed and not validated; no request of
\* a later attempt exists; and the run has failed with that error.
C32_ContinuationFailureIsFatal ==
    \A i \in GatewayFailures :
        InContinuation(i) =>
            LET a == hist[i].attempt
            IN  /\ Len(hist) = i + 1
                /\ hist[i + 1].ev = "return"
                /\ hist[i + 1].attempt = a
                /\ ResponsesOf(a) # {}
                /\ EventsOfAttempt("parse", a) = {}
                /\ EventsOfAttempt("validate", a) = {}
                /\ \A k \in Events("request") : hist[k].attempt <= a
                /\ ret.result.isNil
                /\ ret.resp.isNil
                /\ ret.err.kind = "continuation request failed"
                /\ ret.err.cause = hist[i].info
                /\ out.done /\ ~out.ok /\ out.cause = ret.err
                /\ pc = "done"

\* C32 witness: the second attempt's continuation request failed with two
\* responses of that attempt already assembled, while one more attempt remained.
C32_Witness ==
    \E i \in GatewayFailures :
        /\ InContinuation(i)
        /\ hist[i].attempt = 1
        /\ AttemptsRemain(hist[i].attempt)
        /\ Cardinality(ResponsesOf(1)) = 2
        /\ content # <<>>

\* ---- C33

\* the responses of attempt a received before event i, and the continuation
\* instruction as a message
ResponsesBefore(a, i) == {r \in ResponsesOf(a) : r < i}
ContinueMsg == Msg("user", <<Txt("Continue exactly where you left off. Do not repeat any code.")>>)
HoldsInstruction(msgs) == \E k \in 1..Len(msgs) : msgs[k] = ContinueMsg

\* a request has just been issued: it is the last event recorded
JustRequested == Len(hist) > 0 /\ hist[Len(hist)].ev = "request"

\* C33: every continuation request of an attempt is, when it is issued, made of the messages the
\* attempt was started with, one assistant message holding the text of all
\* responses the attempt has received so far, in order, and the continue
\* instruction; the Conversation itself never holds the continue instruction
\* and has one message plus two per finished attempt, whatever the number of
\* continuations; and the messages of the next attempt are those of the attempt
\* before it, one assistant message with the whole assembled text and one user
\* message.
C33_ContinuationsStayLocal ==
    /\ JustRequested =>
          LET i == Len(hist)
              a == hist[i].attempt
          IN  IF hist[i].info = "cont"
              THEN /\ ResponsesBefore(a, i) # {}
                   /\ hist[i].msgs =
                          Sent(a) \o <<Msg("assistant", BodiesInOrder(ResponsesBefore(a, i))),
                                       ContinueMsg>>
                   /\ messages = Sent(a)
              ELSE /\ hist[i].msgs = messages
                   /\ Len(messages) = 1 + 2 * a
                   /\ a > 0 =>
                         /\ SubSeq(messages, 1, Len(messages) - 2) = Sent(a - 1)
                         /\ messages[Len(messages) - 1] =
                                Msg("assistant", BodiesInOrder(ResponsesOf(a - 1)))
                         /\ messages[Len(messages)].Role = "user"
    /\ ~HoldsInstruction(messages)
    /\ Started # {} => Len(messages) = 1 + 2 * attempt

\* C33 witness: the second attempt has been started with three messages after
\* a first attempt that made three continuation requests.
C33_Witness ==
    /\ 1 \in Started
    /\ Cardinality(ContinuationsOf(0)) = maxContinuations
    /\ Len(Sent(1)) = 3
    /\ Len(Sent(1)[2].Content) > Len(hist[SetMax(ResponsesOf(0))].text)

\* ---- C34

\* the calls of CompleteWithRetry and of the validator made so far
GatewayCalls == Events("request")
ValidatorCalls == Events("validate")

\* C34: createSketch makes at most 1 + maxContinuations calls of
\* CompleteWithRetry in one attempt and runs attempts 0 to maxRetries only, so
\* at most (maxRetries + 1) * (1 + maxContinuations) calls in all; it calls the
\* validator at most once in an attempt, so at most maxRetries + 1 times; and
\* when every call it makes returns, createSketch returns.
C34_BoundedWork ==
    /\ [](/\ attempt \in 0..maxRetries
          /\ \A a \in Started :
                /\ a \in 0..maxRetries
                /\ Cardinality(EventsOfAttempt("request", a)) <= 1 + maxContinuations
                /\ Cardinality(EventsOfAttempt("validate", a)) <= 1
          /\ Cardinality(GatewayCalls) <= (maxRetries + 1) * (1 + maxContinuations)
          /\ Cardinality(ValidatorCalls) <= maxRetries + 1)
    /\ <>CreateReturned

\* C34 witness: createSketch has returned after attempts 0 to maxRetries, each
\* with a validator call, one of them with 1 + maxContinuations gateway calls.
C34_Witness ==
    /\ CreateReturned
    /\ Started = 0..maxRetries
    /\ Cardinality(ValidatorCalls) = maxRetries + 1
    /\ \E a \in Started : Cardinality(EventsOfAttempt("request", a)) = 1 + maxContinuations

\* ---- C35

\* Studio.Generate has returned its report; the entry of section j in it
Reported == out.done /\ out.ok
Entry(j) == out.sketch.Sections[j]
\* the expansion of section j gave a fragment: the gateway returned a response
\* and code was found in it
FragmentOf(j) ==
    IF secRes[j].reply.err = "nil" THEN extractSketchCode(secRes[j].reply.resp.Content)
    ELSE <<>>
\* ... and the Compile Gate reported success on the candidate made with it
CandidatePassed(j) ==
    LET v == GateVerdict(j, secRes[j].before \o SectionHeader(plan.Sections[j].Title)
                                \o FragmentOf(j))
    IN  FragmentOf(j) # <<>> /\ ~v.isNil /\ v.Success

\* C35: in the report Studio.Generate returns, every section of the plan has
\* one entry; the entry is marked Expanded exactly when its Content is not
\* empty, and exactly when the section's expansion gave a fragment and the
\* Compile Gate reported success on its candidate; the Content of such an entry
\* is that fragment; every other entry has Expanded false and empty Content.
C35_FlagMatchesFragment ==
    Reported =>
        /\ Len(out.sketch.Sections) = NumSections
        /\ Len(secRes) = NumSections
        /\ \A j \in 1..NumSections :
              /\ Entry(j).Title = plan.Sections[j].Title
              /\ Entry(j).Expanded <=> Entry(j).Content # <<>>
              /\ Entry(j).Expanded <=> CandidatePassed(j)
              /\ Entry(j).Expanded => Entry(j).Content = FragmentOf(j)
              /\ ~CandidatePassed(j) => ~Entry(j).Expanded /\ Entry(j).Content = <<>>

\* C35 witness: a report with an incorporated section, a section whose reply
\* held no code and a section whose fragment failed the compile.
C35_Witness ==
    /\ Reported
    /\ \E j \in 1..NumSections : Entry(j).Expanded /\ HasText(Entry(j).Content)
    /\ \E j \in 1..NumSections :
          secRes[j].reply.err = "nil" /\ FragmentOf(j) = <<>> /\ ~Entry(j).Expanded
    /\ \E j \in 1..NumSections :
          FragmentOf(j) # <<>> /\ ~CandidatePassed(j) /\ Entry(j).Content = <<>>

\* ---- C36

\* C36: every call of the validator directly follows the parse of the same
\* attempt, that parse succeeded, and the code the validator is given is the
\* code of the artifact parsed from that attempt's text; an attempt has at
\* most one validator call; an attempt whose parse failed or whose gateway
\* request failed has none; without the validate flag there is none at all;
\* and while the validator runs it compiles exactly that code.
C36_ValidatorAfterParse ==
    /\ \A i \in ValidatorCalls :
          LET a == hist[i].attempt
          IN  /\ validate
              /\ i > 1
              /\ hist[i - 1].ev = "parse"
              /\ hist[i - 1].attempt = a
              /\ hist[i - 1].info = "nil"
              /\ ~parseResponse(hist[i - 1].text).isNil
              /\ hist[i].text = parseResponse(hist[i - 1].text).result.Code
              /\ HasText(hist[i].text)
              /\ EventsOfAttempt("validate", a) = {i}
              /\ \A k \in EventsOfAttempt("gwerror", a) : i < k
    /\ \A k \in Events("parse") :
          hist[k].info # "nil" => EventsOfAttempt("validate", hist[k].attempt) = {}
    /\ pc = "cs_validate" =>
          /\ ValidatorCalls # {}
          /\ comp.code = hist[SetMax(ValidatorCalls)].text
          /\ comp.name = <<"validate">>

\* C36 witness: three attempts, the first malformed and not validated, the
\* second and the third each validated once.
C36_Witness ==
    /\ Started = {0, 1, 2}
    /\ \E k \in EventsOfAttempt("parse", 0) : hist[k].info # "nil"
    /\ EventsOfAttempt("validate", 0) = {}
    /\ Cardinality(EventsOfAttempt("validate", 1)) = 1
    /\ Cardinality(EventsOfAttempt("validate", 2)) = 1

\* ---- C37

\* the attempt that createSketch returned from, and the responses it received
ReturnedAttempt == hist[SetMax(Events("return"))].attempt
ReturnedResponses == ResponsesOf(ReturnedAttempt)
ReturnedWhole == BodiesInOrder(ReturnedResponses)

\* C37: when createSketch returns an artifact, the Completion it returns is
\* the last response of the successful attempt, with that response's content
\* and stop reason, while the artifact is the one parsed from all the chunks
\* of the attempt joined in order; with one response the Completion's content
\* is the parsed text, with several the parsed text is the earlier chunks
\* followed by the Completion's content.
C37_CompletionIsLastChunk ==
    (CreateReturned /\ NilError /\ ~NilArtifact) =>
        LET R == ReturnedResponses
            last == SetMax(R)
        IN  /\ R # {}
            /\ ~ret.resp.isNil
            /\ ret.resp.Content = hist[last].text
            /\ ret.resp.StopReason = hist[last].info
            /\ \E k \in EventsOfAttempt("parse", ReturnedAttempt) :
                  /\ hist[k].text = ReturnedWhole
                  /\ hist[k].info = "nil"
            /\ ret.result.result = parseResponse(ReturnedWhole).result
            /\ Cardinality(R) = 1 => ret.resp.Content = ReturnedWhole
            /\ Cardinality(R) > 1 =>
                  ReturnedWhole = BodiesInOrder(R \ {last}) \o ret.resp.Content

\* C37 witness: an artifact returned from an attempt with two continuations,
\* with a Completion whose content is shorter than the text that was parsed
\* and differs from the first chunk.
C37_Witness ==
    /\ CreateReturned /\ NilError /\ ~NilArtifact
    /\ Cardinality(ReturnedResponses) = 3
    /\ Len(ret.resp.Content) < Len(ReturnedWhole)
    /\ ret.resp.Content # hist[SetMin(ReturnedResponses)].text
    /\ ret.resp.Content # <<>>

\* ---- C38

\* the compiler process of the first call ended with an error
ProcessFailed == Compiled /\ cIn.beh.exit = "err"
ErrorLines == SelectSeq(Diagnostics, NoKeyword)

\* C38: after a compile whose compiler process ended with an error, the
\* result is not successful, its error list is not empty, its two artifact
\* paths are empty whatever files the directory holds, and no error is
\* returned beside it; the error list is the error lines of the diagnostic
\* output when there are any and otherwise the single text of the process
\* error; a repeated call reports the same.
C38_ProcessErrorReported ==
    ProcessFailed =>
        /\ ~cOut.first.Success
        /\ Len(cOut.first.Errors) >= 1
        /\ cOut.first.SVGPath = <<>>
        /\ cOut.first.GCodePath = <<>>
        /\ cOut.first.err = "nil"
        /\ ErrorLines # <<>> => cOut.first.Errors = ErrorLines
        /\ ErrorLines = <<>> => cOut.first.Errors = << <<Txt("exit status 1")>> >>
        /\ pc = "c_repeated" => cOut.second = cOut.first

\* C38 witness: the compiler failed with a warning as its only diagnostic line
\* and left an output file, next to an output file of an earlier run; the
\* result holds the process error and no path.
C38_Witness ==
    /\ ProcessFailed
    /\ ErrorLines = <<>>
    /\ Diagnostics # <<>>
    /\ cOut.first.Errors = << <<Txt("exit status 1")>> >>
    /\ cOut.first.Warnings # <<>>
    /\ \E f \in fs : f[3] = "txt"
    /\ \E f \in fs : f[3] = "svg"
    /\ cOut.first.GCodePath = <<>>

====
